---- MODULE Spec2Model ----
(***************************************************************************)
(* Verification model of the AuraForge generation core:                    *)
(*   - OllamaClient::stream_chat / stream_chat_openai (src-tauri/src/llm)  *)
(*   - docgen::generate_all_documents (src-tauri/src/docgen)               *)
(*   - Database::replace_documents (src-tauri/src/db)                      *)
(*                                                                         *)
(* A response body is a sequence of byte tokens.  Every token stands for   *)
(* a fixed piece of wire text:                                             *)
(*   "nl" "\n"      "sp" " "      "cr" "\r"                                *)
(*   "u1","u2"      the two bytes of one two-byte UTF-8 character          *)
(*   "a","b"        one ASCII character of generated text                  *)
(*   "x"            a byte that is no part of any JSON document            *)
(*   local daemon (newline-delimited JSON):                                *)
(*     "{"  {"message":{"content":"                                        *)
(*     "}"  "},"done":false}                                               *)
(*     "D"  "},"done":true}                                                *)
(*   OpenAI-compatible (SSE):                                              *)
(*     "d"  data:          "Z"  [DONE]        ":"  the comment marker      *)
(*     "{"  {"choices":[   "}"  ]}                                         *)
(*     "a","b" between them: one choice {"delta":{"content":"a"}}          *)
(*     "F"  one choice {"delta":{},"finish_reason":"stop"}                 *)
(* After decoding, "uu" is the two-byte character and "fffd" is U+FFFD.    *)
(***************************************************************************)
EXTENDS Integers, Sequences, FiniteSets, TLC

VARIABLES
    \* ---- one stream_chat call
    kind,           \* ProviderKind::from_config(config)
    body,           \* the bytes the backend will send
    pos,            \* bytes handed out by stream.next() so far
    buffer,         \* let mut buffer
    full_response,  \* let mut full_response
    done,           \* let mut done
    cancel,         \* the Arc<AtomicBool> passed as `cancel`
    events,         \* what app.emit has been called with, in order
    spc,            \* position of the call: "sending" | "reading" | "returned"
    result,         \* the value returned by the call
    fault,          \* the transport failed (connection, status, read, timeout)
    response,       \* what send().await brought back
    stalled,        \* a read ran into the 60 s timeout
    \* ---- one generate_all_documents run
    messages,       \* state.db.get_messages(session_id): the roles, in order
    include_conversation, \* config.output.include_conversation
    documents,      \* table documents of the session: <<[filename, content]>>
    document_versions, \* table document_versions: {[filename, version, content]}
    drafts,         \* let mut drafts
    docIdx,         \* i + 1 of the for loop over doc_configs
    glog,           \* emits, provider calls and store calls of the run, in order
    gpc,            \* position of the run
    gresult,        \* the value returned by the run
    stored_before,  \* the two document tables as they were when the run began
    \* ---- one send_message call, from the registration of its cancel flag
    sm_pc,          \* position of the call: "idle" | "streaming" | "returned"
    sm_result,      \* the value returned by the call
    assistant_saved, \* contents saved by save_message(.., "assistant", ..)
    registered,     \* state.stream_cancel holds the flag of the session
    \* ---- one readiness analysis
    transcript,     \* the messages handed to the analyzer: <<[role, content]>>
    report,         \* analyze_plan_readiness(&messages)
    coverage,       \* analyze_planning_coverage(&messages)
    rpc,            \* position of the analysis: "idle" | "input" | "analyzed"
    \* ---- one confidence analysis
    cdocs,          \* docs: &[GeneratedDocument], <<[filename, content]>>
    creadiness,     \* readiness: Option<&QualityReport>, <<>> or <<[score]>>
    confidence,     \* the ConfidenceReport returned, <<>> before the call
    cpc,            \* position of the analysis: "idle" | "input" | "analyzed"
    \* ---- the configuration
    config,         \* state.config: the AppConfig in memory
    config_file,    \* config.yaml: the AppConfig last written
    config_error,   \* state.config_error: <<>> for None
    cfg_result,     \* the value the last update call returned
    \* ---- one call of an OllamaClient operation
    llm,            \* config: &LLMConfig of the call
    cl_op,          \* the operation called
    cl_pc,          \* position of the call
    requests,       \* the requests sent: <<[method, url, authorization]>>
    pull_events,    \* the model:pull_progress events emitted
    pull_cancelled, \* self.pull_cancelled
    cl_result,      \* the value the call returned
    pull_body,      \* bytes of the /api/pull response body
    pull_pos,       \* bytes of it handed over so far
    pull_buffer,    \* let mut buffer of pull_model
    pull_completed, \* let mut completed of pull_model
    \* ---- the send_message calls of one session
    message_rows,   \* table messages of the session, by created_at: <<[id, role]>>
    stream_cancel,  \* state.stream_cancel.get(session_id): <<>> or <<flag>>
    flags,          \* the value of every Arc<AtomicBool> made, by flag
    sends,          \* the send_message call of every task: [pc, retry, flag, ..]
    \* ---- the replace_documents calls on one session
    replace_log,    \* the calls made: <<[docs, committed]>>
    \* ---- one generate_documents command
    force,          \* request.force.unwrap_or(false)
    gd_result,      \* what the readiness gate returned, [kind |-> "none"] before
    \* ---- cancel_pull during one pull_model call
    pull_cancel_seen \* cancel_pull was called while the call read its stream

streamVars == <<kind, body, pos, buffer, full_response, done, cancel, events,
                spc, result, fault, response, stalled>>

genVars == <<messages, include_conversation, documents, document_versions,
             drafts, docIdx, glog, gpc, gresult, stored_before>>

sendVars == <<sm_pc, sm_result, assistant_saved, registered>>

readyVars == <<transcript, report, coverage, rpc>>

confVars == <<cdocs, creadiness, confidence, cpc>>

configVars == <<config, config_file, config_error, cfg_result>>

clientVars == <<llm, cl_op, cl_pc, requests, pull_events, pull_cancelled,
                cl_result, pull_body, pull_pos, pull_buffer, pull_completed>>

chatVars == <<message_rows, stream_cancel, flags, sends>>

storeVars == <<replace_log>>

cmdVars == <<force, gd_result>>

pullHist == <<pull_cancel_seen>>

vars == <<streamVars, genVars, sendVars, readyVars, confVars, configVars,
          clientVars, chatVars, storeVars, cmdVars, pullHist>>

outsideStream == <<genVars, sendVars, readyVars, confVars, configVars,
                   clientVars, chatVars, storeVars, cmdVars, pullHist>>

outsideGen == <<streamVars, sendVars, readyVars, confVars, configVars,
                clientVars, chatVars, storeVars, cmdVars, pullHist>>

\* Everything but the readiness and the confidence analysis
outsideAnalysis == <<streamVars, genVars, sendVars, configVars, clientVars, chatVars, storeVars, cmdVars, pullHist>>

-----------------------------------------------------------------------------
(* Bounds *)

MaxLines == 3

-----------------------------------------------------------------------------
(* Text helpers: str::trim, str::find, String::from_utf8_lossy *)

IsWhitespace(c) == c \in {"sp", "cr", "nl"}

RECURSIVE TrimStart(_)
TrimStart(s) ==
    IF s # <<>> /\ IsWhitespace(Head(s)) THEN TrimStart(Tail(s)) ELSE s

RECURSIVE TrimEnd(_)
TrimEnd(s) ==
    IF s # <<>> /\ IsWhitespace(s[Len(s)])
    THEN TrimEnd(SubSeq(s, 1, Len(s) - 1))
    ELSE s

Trim(s) == TrimEnd(TrimStart(s))

\* buffer.find('\n'): index of the first newline, 0 for None
FindNewline(s) ==
    IF \E i \in 1..Len(s) : s[i] = "nl"
    THEN CHOOSE i \in 1..Len(s) : s[i] = "nl" /\ \A j \in 1..(i - 1) : s[j] # "nl"
    ELSE 0

\* String::from_utf8_lossy(&chunk): every chunk is decoded on its own, so a
\* two-byte character cut by a chunk boundary becomes two U+FFFD.
RECURSIVE FromUtf8Lossy(_)
FromUtf8Lossy(bytes) ==
    IF bytes = <<>> THEN <<>>
    ELSE IF Head(bytes) = "u1"
         THEN IF Len(bytes) >= 2 /\ bytes[2] = "u2"
              THEN <<"uu">> \o FromUtf8Lossy(SubSeq(bytes, 3, Len(bytes)))
              ELSE <<"fffd">> \o FromUtf8Lossy(Tail(bytes))
    ELSE IF Head(bytes) = "u2"
         THEN <<"fffd">> \o FromUtf8Lossy(Tail(bytes))
    ELSE <<Head(bytes)>> \o FromUtf8Lossy(Tail(bytes))

-----------------------------------------------------------------------------
(* Events *)

ContentEvent(text) == [type |-> "content", content |-> text]
DoneEvent == [type |-> "done", content |-> <<>>]

DoneCount(evs) == Cardinality({i \in 1..Len(evs) : evs[i].type = "done"})

-----------------------------------------------------------------------------
(* The loop state of one call: the locals the read loop updates *)

Locals(buf, full, evs, dn) ==
    [buffer |-> buf, full_response |-> full, events |-> evs, done |-> dn]

\* full_response.push_str(&content); app.emit("stream:chunk", content),
\* both guarded by !content.is_empty()
EmitContent(st, text) ==
    IF text # <<>>
    THEN [st EXCEPT !.full_response = @ \o text,
                    !.events = Append(@, ContentEvent(text))]
    ELSE st

\* app.emit("stream:done", ..); done = true
EmitDone(st) ==
    [st EXCEPT !.events = Append(@, DoneEvent), !.done = TRUE]

-----------------------------------------------------------------------------
(* Local daemon: newline-delimited JSON *)

ContentChars == {"a", "b", "uu", "fffd", "sp"}

\* serde_json::from_str::<OllamaStreamResponse>(line): `message` and `done`
\* are both required fields; a raw newline inside the string is an error.
ParseOllama(line) ==
    IF /\ Len(line) >= 2
       /\ line[1] = "{"
       /\ line[Len(line)] \in {"}", "D"}
       /\ \A i \in 2..(Len(line) - 1) : line[i] \in ContentChars
    THEN [ok |-> TRUE,
          content |-> SubSeq(line, 2, Len(line) - 1),
          done |-> (line[Len(line)] = "D")]
    ELSE [ok |-> FALSE, content |-> <<>>, done |-> FALSE]

\* One parsed line: content first, then the done flag.
ApplyOllama(st, parsed) ==
    LET st1 == EmitContent(st, parsed.content)
    IN  IF parsed.done THEN EmitDone(st1) ELSE st1

\* while let Some(newline_pos) = buffer.find('\n') { .. }: stops at the first
\* line whose done flag is set (break), leaving the rest of the buffer.
RECURSIVE ProcessLinesOllama(_)
ProcessLinesOllama(st) ==
    LET p == FindNewline(st.buffer)
    IN  IF p = 0 THEN st
        ELSE LET line == Trim(SubSeq(st.buffer, 1, p - 1))
                 st1 == [st EXCEPT !.buffer = SubSeq(@, p + 1, Len(@))]
                 parsed == ParseOllama(line)
             IN  IF line = <<>> THEN ProcessLinesOllama(st1)
                 ELSE IF ~parsed.ok THEN ProcessLinesOllama(st1)
                 ELSE LET st2 == ApplyOllama(st1, parsed)
                      IN  IF parsed.done THEN st2 ELSE ProcessLinesOllama(st2)

\* "Process any remaining data in the buffer": runs after the read loop,
\* whether the loop ended by break or by end of stream.
RemainingOllama(st) ==
    LET remaining == Trim(st.buffer)
        parsed == ParseOllama(remaining)
    IN  IF remaining # <<>> /\ parsed.ok THEN ApplyOllama(st, parsed) ELSE st

-----------------------------------------------------------------------------
(* OpenAI-compatible: server-sent events *)

ChoiceTokens == {"a", "b", "uu", "fffd", "F"}

\* line.trim_start_matches("data:").trim(): strips every leading "data:"
RECURSIVE TrimStartMatchesData(_)
TrimStartMatchesData(s) ==
    IF s # <<>> /\ Head(s) = "d" THEN TrimStartMatchesData(Tail(s)) ELSE s

SseData(line) == Trim(TrimStartMatchesData(line))

\* serde_json::from_str::<OpenAiStreamResponse>(data)
ParseOpenAi(data) ==
    IF /\ Len(data) >= 2
       /\ data[1] = "{"
       /\ data[Len(data)] = "}"
       /\ \A i \in 2..(Len(data) - 1) : data[i] \in ChoiceTokens
    THEN [ok |-> TRUE, choices |-> SubSeq(data, 2, Len(data) - 1)]
    ELSE [ok |-> FALSE, choices |-> <<>>]

\* for choice in parsed.choices { .. }: the break on finish_reason leaves
\* this for loop only.
RECURSIVE ProcessChoices(_, _)
ProcessChoices(st, choices) ==
    IF choices = <<>> THEN st
    ELSE IF Head(choices) = "F" THEN EmitDone(st)
    ELSE ProcessChoices(EmitContent(st, <<Head(choices)>>), Tail(choices))

SkippedSseLineCommentsOnly(line) == line = <<>> \/ Head(line) = ":"

\* A line that is skipped: empty, a comment, or not prefixed with data:
SkippedSseLine(line) ==
    line = <<>> \/ Head(line) = ":" \/ Head(line) # "d"

\* while let Some(newline_pos) = buffer.find('\n') { .. }: only the [DONE]
\* sentinel leaves this loop early.
RECURSIVE ProcessLinesOpenAi(_)
ProcessLinesOpenAi(st) ==
    LET p == FindNewline(st.buffer)
    IN  IF p = 0 THEN st
        ELSE LET line == Trim(SubSeq(st.buffer, 1, p - 1))
                 st1 == [st EXCEPT !.buffer = SubSeq(@, p + 1, Len(@))]
                 data == SseData(line)
                 parsed == ParseOpenAi(data)
             IN  IF SkippedSseLine(line) THEN ProcessLinesOpenAi(st1)
                 ELSE IF data = <<"Z">> THEN EmitDone(st1)
                 ELSE IF ~parsed.ok THEN ProcessLinesOpenAi(st1)
                 ELSE ProcessLinesOpenAi(ProcessChoices(st1, parsed.choices))

-----------------------------------------------------------------------------
(* Both backends *)

Kinds == {"Ollama", "OpenAiCompatible"}

RECURSIVE ProcessLinesOllamaStopsAtError(_)
ProcessLinesOllamaStopsAtError(st) ==
    LET p == FindNewline(st.buffer)
    IN  IF p = 0 THEN st
        ELSE LET line == Trim(SubSeq(st.buffer, 1, p - 1))
                 st1 == [st EXCEPT !.buffer = SubSeq(@, p + 1, Len(@))]
                 parsed == ParseOllama(line)
             IN  IF line = <<>> THEN ProcessLinesOllamaStopsAtError(st1)
                 ELSE IF ~parsed.ok THEN st1
                 ELSE LET st2 == ApplyOllama(st1, parsed)
                      IN  IF parsed.done THEN st2
                          ELSE ProcessLinesOllamaStopsAtError(st2)

ProcessLinesStopsAtError(k, st) ==
    IF k = "Ollama" THEN ProcessLinesOllamaStopsAtError(st)
    ELSE ProcessLinesOpenAi(st)

ProcessLines(k, st) ==
    IF k = "Ollama" THEN ProcessLinesOllama(st) ELSE ProcessLinesOpenAi(st)

\* buffer.push_str(&String::from_utf8_lossy(&chunk)), then the line loop
ProcessChunk(k, st, bytes) ==
    ProcessLines(k, [st EXCEPT !.buffer = @ \o FromUtf8Lossy(bytes)])

\* What the code does with the buffer once the read loop is over.
AfterLoop(k, st) ==
    IF k = "Ollama" THEN RemainingOllama(st) ELSE st

NoResult == [kind |-> "none", text |-> <<>>]
OkResult(text) == [kind |-> "Ok", text |-> text]
ErrResult(e) == [kind |-> e, text |-> <<>>]

-----------------------------------------------------------------------------
(* The request: send().await and the status check, the same in stream_chat,
   stream_chat_openai, generate and generate_openai *)

\* config.llm.model and config.llm.base_url
ConfigModel == "qwen3-coder"
ConfigBaseUrl == "http://localhost:11434"

Statuses == {200, 404, 500}

\* What send().await brings back: no connection, or a response with a status
Responses ==
    {[sent |-> FALSE, status |-> 0]}
        \cup {[sent |-> TRUE, status |-> s] : s \in Statuses}

\* Before send().await
NoResponse == [sent |-> FALSE, status |-> -1]

\* response.status().is_success()
IsSuccess(status) == status \in 200..299

ModelNotFound(model) == [kind |-> "ModelNotFound", text |-> <<model>>]
OllamaConnection(url) == [kind |-> "OllamaConnection", text |-> <<url>>]
LlmRequest(message) == [kind |-> "LlmRequest", text |-> message]

\* format!("Ollama returned {}: {}", status, body) and its counterpart
ReturnedMessage(k, status) ==
    << IF k = "Ollama" THEN "Ollama returned"
       ELSE "OpenAI-compatible endpoint returned", status >>

HttpFailed(resp) == ~resp.sent \/ ~IsSuccess(resp.status)

HttpErrorGeneric404(k, resp) ==
    IF ~resp.sent THEN OllamaConnection(ConfigBaseUrl)
    ELSE LlmRequest(ReturnedMessage(k, resp.status))

\* .map_err(|e| OllamaConnection {..})?, then
\* if !status.is_success() { 404 => ModelNotFound, _ => LlmRequest }
HttpError(k, resp) ==
    IF ~resp.sent THEN OllamaConnection(ConfigBaseUrl)
    ELSE IF resp.status = 404 THEN ModelNotFound(ConfigModel)
    ELSE LlmRequest(ReturnedMessage(k, resp.status))

-----------------------------------------------------------------------------

CancelEventsSilent(evs) == evs

\* The events of a return through a cancel check: emit stream:done first.
CancelEvents(evs) == Append(evs, DoneEvent)

\* if !done { if cancel { emit done; return Cancelled }
\*            return StreamInterrupted }   Ok(full_response)
Outcome(st, flag) ==
    IF st.done THEN [st |-> st, result |-> OkResult(st.full_response)]
    ELSE IF flag
         THEN [st |-> [st EXCEPT !.events = CancelEvents(@)],
               result |-> ErrResult("Cancelled")]
    ELSE [st |-> st, result |-> ErrResult("StreamInterrupted")]

\* The code after the read loop, to the return.
Finish(k, st, flag) == Outcome(AfterLoop(k, st), flag)

-----------------------------------------------------------------------------
(* Response bodies: up to MaxLines lines, the last one with or without its
   newline.  The lines are the shapes the two wire formats are made of. *)

LineForms(k) ==
    IF k = "Ollama"
    THEN { <<"{", "a", "}">>,                 \* content, done: false
           <<"{", "b", "D">>,                 \* content, done: true
           <<"{", "u1", "u2", "}", "cr">>,    \* two-byte character, CRLF
           <<"{", "a">> }                     \* truncated JSON
    ELSE { <<"d", "sp", "{", "a", "}">>,      \* data: one content choice
           <<"d", "{", "b", "F", "a", "}">>,  \* content, finish_reason, content
           <<"d", "sp", "Z">>,                \* data: [DONE]
           <<":", "a">>,                      \* comment / keep-alive
           <<"{", "a", "}">>,                 \* JSON without the data: prefix
           <<"d", "x">> }                     \* data: followed by no JSON

RECURSIVE SeqsUpTo(_, _)
SeqsUpTo(S, n) ==
    IF n = 0 THEN {<<>>}
    ELSE LET shorter == SeqsUpTo(S, n - 1)
         IN  shorter \cup {Append(q, e) : q \in shorter, e \in S}

RECURSIVE JoinLines(_)
JoinLines(ls) ==
    IF ls = <<>> THEN <<>> ELSE Head(ls) \o <<"nl">> \o JoinLines(Tail(ls))

Bodies(k) ==
    LET joined == {JoinLines(ls) : ls \in SeqsUpTo(LineForms(k), MaxLines)}
    IN  joined \cup {SubSeq(b, 1, Len(b) - 1) : b \in joined \ {<<>>}}

-----------------------------------------------------------------------------
(* types: AppConfig.  An Option is <<>> for None and <<v>> for Some(v); the
   temperature is in tenths. *)

LlmConfig(provider, model, base_url, api_key, temperature) ==
    [provider |-> provider, model |-> model, base_url |-> base_url,
     api_key |-> api_key, temperature |-> temperature]

SearchConfig(enabled, provider, tavily_api_key, searxng_url) ==
    [enabled |-> enabled, provider |-> provider,
     tavily_api_key |-> tavily_api_key, searxng_url |-> searxng_url]

OutputConfig(default_save_path, default_target) ==
    [default_save_path |-> default_save_path,
     default_target |-> default_target]

\* impl Default for AppConfig
DefaultConfig ==
    [llm |-> LlmConfig("ollama", ConfigModel, ConfigBaseUrl, <<>>, 7),
     search |-> SearchConfig(TRUE, "duckduckgo", "", ""),
     output |-> OutputConfig("~/Projects", "generic")]

\* No update of the configuration was made since load_or_create_config.
ConfigIdle ==
    /\ config = DefaultConfig
    /\ config_file = DefaultConfig
    /\ config_error = <<>>
    /\ cfg_result = [kind |-> "none"]

\* No operation of the client was called since OllamaClient::new().
ClientIdle ==
    /\ llm = DefaultConfig.llm
    /\ cl_op = "none"
    /\ cl_pc = "idle"
    /\ requests = <<>>
    /\ pull_events = <<>>
    /\ pull_cancelled = FALSE
    /\ cl_result = [kind |-> "none"]
    /\ pull_body = <<>>
    /\ pull_pos = 0
    /\ pull_buffer = <<>>
    /\ pull_completed = FALSE

\* The tasks that call send_message on the session
Tasks == 1..2

\* A task that is not in a call
NoSend == [pc |-> "idle", retry |-> FALSE, flag |-> 0, user_msg |-> 0,
           outcome |-> "none"]

\* A new session: no message, no call of send_message
ChatIdle ==
    /\ message_rows = <<>>
    /\ stream_cancel = <<>>
    /\ flags = <<>>
    /\ sends = [t \in Tasks |-> NoSend]

\* No replace_documents, generate_documents or cancel_pull call was made.
CommandsIdle ==
    /\ replace_log = <<>>
    /\ force = FALSE
    /\ gd_result = [kind |-> "none"]
    /\ pull_cancel_seen = FALSE

-----------------------------------------------------------------------------
(* stream_chat / stream_chat_openai, from `let mut stream = ..` on.  A step
   runs from one `stream.next().await` to the next one or to the return. *)

\* No send_message call is under way.
SendIdle ==
    /\ sm_pc = "idle"
    /\ sm_result = [kind |-> "none"]
    /\ assistant_saved = <<>>
    /\ registered = FALSE

\* No readiness analysis is under way.
ReadyIdle ==
    /\ transcript = <<>>
    /\ report = [score |-> -1]
    /\ coverage = <<>>
    /\ rpc = "idle"

\* No confidence analysis is under way.
ConfIdle ==
    /\ cdocs = <<>>
    /\ creadiness = <<>>
    /\ confidence = <<>>
    /\ cpc = "idle"

\* No generate_all_documents run is under way.
GenIdle ==
    /\ messages = <<>>
    /\ include_conversation = FALSE
    /\ documents = <<>>
    /\ document_versions = {}
    /\ drafts = <<>>
    /\ docIdx = 0
    /\ glog = <<>>
    /\ gpc = "idle"
    /\ gresult = NoResult
    /\ stored_before = <<documents, document_versions>>

\* The state a call starts in on body b
StreamStart(b) ==
    /\ body = b
    /\ pos = 0
    /\ buffer = <<>>
    /\ full_response = <<>>
    /\ done = FALSE
    /\ cancel = FALSE
    /\ events = <<>>
    /\ spc = "sending"
    /\ result = NoResult
    /\ fault = FALSE
    /\ response = NoResponse
    /\ stalled = FALSE

StreamInit ==
    /\ GenIdle
    /\ SendIdle
    /\ ReadyIdle
    /\ ConfIdle
    /\ ConfigIdle
    /\ ClientIdle
    /\ ChatIdle
    /\ CommandsIdle
    /\ kind \in Kinds
    /\ \E b \in Bodies(kind) : StreamStart(b)

CurrentLocals == Locals(buffer, full_response, events, done)

\* Leave the call with the locals st and the value res.
Return(st, res) ==
    /\ buffer' = st.buffer
    /\ full_response' = st.full_response
    /\ events' = st.events
    /\ done' = st.done
    /\ result' = res
    /\ spc' = "returned"

\* cancel_response: flag.store(true), from another task, at any moment of
\* the call.
CancelResponse ==
    /\ spc \in {"sending", "reading"}
    /\ ~cancel
    /\ cancel' = TRUE
    /\ UNCHANGED <<kind, body, pos, buffer, full_response, done, events, spc,
                   result, fault, response, stalled>>
    /\ UNCHANGED outsideStream

\* send().await comes back: the error of a failed request is returned
\* before anything is read or emitted; a success opens the byte stream.
SendRequest(resp) ==
    /\ spc = "sending"
    /\ response' = resp
    /\ IF HttpFailed(resp)
       THEN /\ Return(CurrentLocals, HttpError(kind, resp))
            /\ fault' = TRUE
       ELSE /\ spc' = "reading"
            /\ UNCHANGED <<buffer, full_response, events, done, result, fault>>
    /\ UNCHANGED <<kind, body, pos, cancel, stalled>>
    /\ UNCHANGED outsideStream

\* stream.next() yields Some(Ok(chunk)) with the next n bytes of the body.
ReadChunk(n) ==
    /\ spc = "reading"
    /\ pos + n <= Len(body)
    /\ pos' = pos + n
    /\ IF cancel
       THEN Return([CurrentLocals EXCEPT !.events = CancelEvents(@)],
                   ErrResult("Cancelled"))
       ELSE LET st == ProcessChunk(kind, CurrentLocals,
                                   SubSeq(body, pos + 1, pos + n))
                fin == Finish(kind, st, cancel)
            IN  IF st.done
                THEN Return(fin.st, fin.result)
                ELSE /\ buffer' = st.buffer
                     /\ full_response' = st.full_response
                     /\ events' = st.events
                     /\ UNCHANGED <<done, result, spc>>
    /\ UNCHANGED <<kind, body, cancel, fault, response, stalled>>
    /\ UNCHANGED outsideStream

\* stream.next() yields Some(Err(_)): the connection broke.
ReadError ==
    /\ spc = "reading"
    /\ IF cancel
       THEN Return([CurrentLocals EXCEPT !.events = CancelEvents(@)],
                   ErrResult("Cancelled"))
       ELSE Return(CurrentLocals, ErrResult("StreamInterrupted"))
    /\ fault' = TRUE
    /\ UNCHANGED <<kind, body, pos, cancel, response, stalled>>
    /\ UNCHANGED outsideStream

ReadTimeoutEndsStream ==
    /\ spc = "reading"
    /\ LET fin == Finish(kind, CurrentLocals, cancel)
       IN  Return(fin.st, fin.result)
    /\ fault' = TRUE
    /\ stalled' = TRUE
    /\ UNCHANGED <<kind, body, pos, cancel, response>>
    /\ UNCHANGED outsideStream

\* No read completes within 60 s: timeout(..).await.map_err(..)?
ReadTimeout ==
    /\ spc = "reading"
    /\ Return(CurrentLocals, ErrResult("StreamInterrupted"))
    /\ fault' = TRUE
    /\ stalled' = TRUE
    /\ UNCHANGED <<kind, body, pos, cancel, response>>
    /\ UNCHANGED outsideStream

\* stream.next() yields None: the body is over.
ReadEnd ==
    /\ spc = "reading"
    /\ pos = Len(body)
    /\ LET fin == Finish(kind, CurrentLocals, cancel)
       IN  Return(fin.st, fin.result)
    /\ UNCHANGED <<kind, body, pos, cancel, fault, response, stalled>>
    /\ UNCHANGED outsideStream

StreamNext ==
    \/ CancelResponse
    \/ \E resp \in Responses : SendRequest(resp)
    \/ \E n \in 1..(Len(body) - pos) : ReadChunk(n)
    \/ ReadError
    \/ ReadTimeout
    \/ ReadEnd

SpecStream == StreamInit /\ [][StreamNext]_vars

-----------------------------------------------------------------------------
(* send_message, from the registration of the cancel flag on: the
   stream_chat call above, then the match on its result *)

\* AppError::code
Code(k) ==
    CASE k = "OllamaConnection" -> "ollama_connection"
      [] k = "ModelNotFound" -> "ollama_model_missing"
      [] k = "LlmRequest" -> "llm_request_failed"
      [] k = "StreamInterrupted" -> "stream_interrupted"
      [] k = "Cancelled" -> "stream_cancelled"
      [] k = "Database" -> "database_error"
      [] k = "Config" -> "config_error"
      [] k = "Validation" -> "validation_error"

\* AppError::is_recoverable
IsRecoverable(k) ==
    k \in {"Database", "LlmRequest", "StreamInterrupted", "Cancelled"}

\* AppError::suggested_action, <<>> for None
SuggestedAction(err) ==
    CASE err.kind = "OllamaConnection" -> <<"Start Ollama and retry">>
      [] err.kind = "ModelNotFound" -> <<"ollama pull">> \o err.text
      [] err.kind = "Validation" -> <<"Review the request and try again">>
      [] OTHER -> <<>>

\* AppError::to_response
ToResponse(err) ==
    [code |-> Code(err.kind),
     recoverable |-> IsRecoverable(err.kind),
     action |-> SuggestedAction(err)]

\* StreamChunk { type: "error", error: Some(e.to_string()), .. }
ErrorEvent(err) == [type |-> "error", content |-> <<err.kind>> \o err.text]

SendOk == [kind |-> "Ok", message |-> "user_msg"]
SendErr(resp) == [kind |-> "Err", response |-> resp]

\* The bodies of the calls made through send_message: one or two lines
SendBodies(k) ==
    {JoinLines(<<l>>) : l \in LineForms(k)}
        \cup {JoinLines(<<l, m>>) : l \in LineForms(k), m \in LineForms(k)}

\* cancel_flag registered, stream_chat called
SendInit ==
    /\ GenIdle
    /\ ReadyIdle
    /\ ConfIdle
    /\ ConfigIdle
    /\ ClientIdle
    /\ ChatIdle
    /\ CommandsIdle
    /\ kind \in Kinds
    /\ \E b \in SendBodies(kind) : StreamStart(b)
    /\ sm_pc = "streaming"
    /\ sm_result = [kind |-> "none"]
    /\ assistant_saved = <<>>
    /\ registered = TRUE

SendMessageReturnCancelIsError(saved) ==
    /\ sm_pc = "streaming"
    /\ spc = "returned"
    /\ IF result.kind = "Ok"
       THEN /\ assistant_saved' = IF saved THEN Append(assistant_saved, result.text)
                                  ELSE assistant_saved
            /\ sm_result' = SendOk
            /\ UNCHANGED events
       ELSE /\ saved
            /\ events' = Append(events, ErrorEvent(result))
            /\ sm_result' = SendErr(ToResponse(result))
            /\ UNCHANGED assistant_saved
    /\ registered' = FALSE
    /\ sm_pc' = "returned"
    /\ UNCHANGED <<kind, body, pos, buffer, full_response, done, cancel, spc,
                   result, fault, response, stalled>>
    /\ UNCHANGED <<genVars, readyVars, confVars, configVars, clientVars, chatVars, storeVars, cmdVars, pullHist>>

\* match full_response { Ok => save_message (a failure is only logged),
\* Err(StreamCancelled) => return Ok(user_msg), Err(e) => emit stream:error
\* and return Err }, with map.remove(&session_id) on every path
SendMessageReturn(saved) ==
    /\ sm_pc = "streaming"
    /\ spc = "returned"
    /\ IF result.kind = "Ok"
       THEN /\ assistant_saved' = IF saved THEN Append(assistant_saved, result.text)
                                  ELSE assistant_saved
            /\ sm_result' = SendOk
            /\ UNCHANGED events
       ELSE IF result.kind = "Cancelled"
       THEN /\ saved
            /\ sm_result' = SendOk
            /\ UNCHANGED <<assistant_saved, events>>
       ELSE /\ saved
            /\ events' = Append(events, ErrorEvent(result))
            /\ sm_result' = SendErr(ToResponse(result))
            /\ UNCHANGED assistant_saved
    /\ registered' = FALSE
    /\ sm_pc' = "returned"
    /\ UNCHANGED <<kind, body, pos, buffer, full_response, done, cancel, spc,
                   result, fault, response, stalled>>
    /\ UNCHANGED <<genVars, readyVars, confVars, configVars, clientVars, chatVars, storeVars, cmdVars, pullHist>>

SendNext ==
    \/ CancelResponse
    \/ \E resp \in Responses : SendRequest(resp)
    \/ \E n \in 1..(Len(body) - pos) : ReadChunk(n)
    \/ ReadError
    \/ ReadTimeout
    \/ ReadEnd
    \/ \E saved \in BOOLEAN : SendMessageReturn(saved)

SpecSend == SendInit /\ [][SendNext]_vars

-----------------------------------------------------------------------------
(* Properties of one streaming call *)

EmptyLocals == Locals(<<>>, <<>>, <<>>, FALSE)

\* The call on body b when the whole body arrives in a single read.
OneRead(k, b) ==
    IF b = <<>> THEN Finish(k, EmptyLocals, FALSE)
    ELSE Finish(k, ProcessChunk(k, EmptyLocals, b), FALSE)

\* C1: a call that returned Cancelled has emitted exactly one Done event,
\* and the Done event is the last thing it emitted before it returned.
C1_CancelledAfterOneDone ==
    result.kind = "Cancelled" =>
        /\ DoneCount(events) = 1
        /\ events[Len(events)] = DoneEvent

\* C1 witness: a call cancelled mid-stream, after content was emitted and
\* with part of the body still unread.
C1_Witness ==
    /\ result.kind = "Cancelled"
    /\ \E i \in 1..Len(events) : events[i].type = "content"
    /\ pos < Len(body)

\* C2: a call emits at most one Done event, and exactly one when it returns
\* Ok, whatever follows the terminal line in the same read.
C2_ExactlyOneTerminal ==
    /\ DoneCount(events) <= 1
    /\ (result.kind = "Ok" => DoneCount(events) = 1)

\* C3: on the local-daemon backend a call that met no cancellation and no
\* transport failure returns the same result and emits the same events as
\* the call that receives the same body in a single read.
C3_SplitInvariance ==
    (kind = "Ollama" /\ spc = "returned" /\ ~cancel /\ ~fault) =>
        /\ result = OneRead(kind, body).result
        /\ events = OneRead(kind, body).st.events

\* C4: a call whose cancel flag was set while it was in flight, before a
\* terminal marker was processed, ends with a Done event and Cancelled.
C4_CancelWins ==
    (spc = "returned" /\ cancel) =>
        /\ result.kind = "Cancelled"
        /\ DoneCount(events) >= 1

-----------------------------------------------------------------------------
(* docgen::generate_all_documents *)

\* doc_configs, in declaration order
DocConfigs == <<"SPEC.md", "CLAUDE.md", "PROMPTS.md", "README.md", "START_HERE.md">>

\* let total = doc_configs.len() + if include_conversation { 2 } else { 1 }
Total(include) == Len(DocConfigs) + (IF include THEN 2 ELSE 1)

\* content.trim_start().starts_with('#')
StartsWithHeading(content) ==
    LET t == TrimStart(content) IN t # <<>> /\ Head(t) = "#"

HasUserMessageAnyRole(msgs) == \E i \in 1..Len(msgs) : msgs[i] # "system"

\* messages.iter().any(|m| m.role == "user")
HasUserMessage(msgs) == \E i \in 1..Len(msgs) : msgs[i] = "user"

IsNotSystem(role) == role # "system"

\* format_conversation_for_prompt: system messages are left out
FormatConversation(msgs) == SelectSeq(msgs, IsNotSystem)

\* previously_generated: a fixed sentence for no drafts, else every draft
\* as "## name\n\ncontent", joined in order
PreviouslyGenerated(ds) ==
    IF ds = <<>> THEN <<"No documents generated yet.">> ELSE ds

Draft(filename, content) == [filename |-> filename, content |-> content]

\* app.emit("generate:progress", GenerateProgress { current, total, filename })
ProgressEvent(current, total, filename) ==
    [ev |-> "generate:progress", current |-> current, total |-> total,
     filename |-> filename]

\* state.ollama.generate(&config.llm, llm_messages, 0.4), and the retry
\* generate(.., retry_messages, 0.3) with the IMPORTANT suffix on the prompt
GenerateCall(filename, ds, msgs, retry) ==
    [ev |-> "generate", filename |-> filename,
     conversation |-> FormatConversation(msgs),
     previously |-> PreviouslyGenerated(ds),
     important |-> retry,
     temperature |-> IF retry THEN "0.3" ELSE "0.4"]

\* what the provider answered to the call before it in the log
ReplyEvent(content) == [ev |-> "reply", content |-> content]

\* state.db.get_messages(session_id) returned Ok
GetMessagesEvent == [ev |-> "get_messages"]

\* app.emit("generate:complete", GenerateComplete { count })
CompleteEvent(count) == [ev |-> "generate:complete", count |-> count]

\* state.db.replace_documents(session_id, &drafts)
ReplaceCall(ds) == [ev |-> "replace_documents", docs |-> ds]

\* generate_conversation_md / generate_model_handoff_doc both open with "# "
ConversationMd == <<"#", "sp", "conversation">>
ModelHandoffDoc == <<"#", "sp", "handoff">>

\* Top of one loop iteration, up to the first .await: progress, then call.
BeginDocument(i, ds, msgs, include) ==
    << ProgressEvent(i, Total(include), DocConfigs[i]),
       GenerateCall(DocConfigs[i], ds, msgs, FALSE) >>

NeedsRetryWithoutTrim(content) == ~(content # <<>> /\ Head(content) = "#")

\* The retry is made when the first output fails the heading check.
NeedsRetry(content) == ~StartsWithHeading(content)

ContentAfterRetryKeepsFirst(first, second) == first

\* content = generate(retry_messages): the retry's output replaces the first.
ContentAfterRetry(first, second) == second

TailDraftsHandoffFirst(ds, include) ==
    Append(ds, Draft("MODEL_HANDOFF.md", ModelHandoffDoc))
        \o (IF include THEN <<Draft("CONVERSATION.md", ConversationMd)>> ELSE <<>>)

\* The code after the loop up to replace_documents: the documents made from
\* data, each behind its progress event.
TailDrafts(ds, include) ==
    (IF include THEN Append(ds, Draft("CONVERSATION.md", ConversationMd)) ELSE ds)
        \o <<Draft("MODEL_HANDOFF.md", ModelHandoffDoc)>>

TailProgressSameStep(include) ==
    (IF include
     THEN <<ProgressEvent(Total(include), Total(include), "CONVERSATION.md")>>
     ELSE <<>>)
        \o <<ProgressEvent(Total(include), Total(include), "MODEL_HANDOFF.md")>>

\* conversation_step = total - 1; handoff_step = total
TailProgress(include) ==
    (IF include
     THEN <<ProgressEvent(Total(include) - 1, Total(include), "CONVERSATION.md")>>
     ELSE <<>>)
        \o <<ProgressEvent(Total(include), Total(include), "MODEL_HANDOFF.md")>>

-----------------------------------------------------------------------------
(* Database::replace_documents: one transaction *)

\* next_document_version: MAX(version) + 1, 1 when there is none
NextDocumentVersion(versions, filename) ==
    LET vs == {w.version : w \in {v \in versions : v.filename = filename}}
    IN  IF vs = {} THEN 1 ELSE (CHOOSE m \in vs : \A v \in vs : v <= m) + 1

\* archive_current_documents: one version row per current document
RECURSIVE ArchiveCurrentDocuments(_, _)
ArchiveCurrentDocuments(versions, docs) ==
    IF docs = <<>> THEN versions
    ELSE ArchiveCurrentDocuments(
            versions \cup {[filename |-> Head(docs).filename,
                            version |-> NextDocumentVersion(versions, Head(docs).filename),
                            content |-> Head(docs).content]},
            Tail(docs))

\* The committed transaction: archive, DELETE, INSERT every draft in order.
ReplaceDocuments(docs, versions, ds) ==
    [documents |-> ds,
     document_versions |-> ArchiveCurrentDocuments(versions, docs)]

-----------------------------------------------------------------------------
(* The run as a state machine.  A step runs from one .await of a provider
   call to the next one or to the return. *)

Roles == {"system", "user", "assistant"}

\* The transcripts a run is started on: with and without a user message
Transcripts ==
    { <<>>,
      <<"system">>,
      <<"assistant">>,
      <<"system", "assistant">>,
      <<"user">>,
      <<"system", "user", "assistant", "user">> }

\* What a provider call can answer (the text generate returns)
Outputs == { <<"#">>, <<"sp", "#">>, <<"x">> }

\* What a failing generate call met: no connection, a status that is not a
\* success, or a success whose body is not the expected JSON
GenerateFailures ==
    {[sent |-> r.sent, status |-> r.status, json |-> FALSE] : r \in Responses}

\* The Err(..) generate / generate_openai returns for it
GenerateError(k, resp) ==
    IF HttpFailed(resp) THEN HttpError(k, resp)
    ELSE LlmRequest(<<"Failed to parse response">>)

\* The entry of the log for a provider call that returned Err(err)
FailureEvent(resp, err) == [ev |-> "failure", response |-> resp, error |-> err]

PropagateAsGeneric(err) == LlmRequest(<<err.kind>>)

\* `.await?` in a function that returns Result<_, AppError>: the error
\* goes through From<AppError> for AppError
Propagate(err) == err

\* The documents of the session before the run
StoredBefore == { <<>>, <<Draft("SPEC.md", <<"#", "old">>)>> }

StreamIdle ==
    /\ body = <<>>
    /\ pos = 0
    /\ buffer = <<>>
    /\ full_response = <<>>
    /\ done = FALSE
    /\ cancel = FALSE
    /\ events = <<>>
    /\ spc = "idle"
    /\ result = NoResult
    /\ fault = FALSE
    /\ response = NoResponse
    /\ stalled = FALSE

GenInit ==
    /\ StreamIdle
    /\ SendIdle
    /\ ReadyIdle
    /\ ConfIdle
    /\ ConfigIdle
    /\ ClientIdle
    /\ ChatIdle
    /\ CommandsIdle
    /\ kind \in Kinds
    /\ messages \in Transcripts
    /\ include_conversation \in BOOLEAN
    /\ documents \in StoredBefore
    /\ document_versions = {}
    /\ drafts = <<>>
    /\ docIdx = 0
    /\ glog = <<>>
    /\ gpc = "start"
    /\ gresult = NoResult
    /\ stored_before = <<documents, document_versions>>

GenOk(docs) == [kind |-> "Ok", docs |-> docs]

GenReturn(res) ==
    /\ gresult' = res
    /\ gpc' = "returned"

\* state.db.get_messages(session_id) fails: `?` returns the database error
GetMessagesFails ==
    /\ gpc = "start"
    /\ GenReturn(ErrResult("Database"))
    /\ UNCHANGED <<messages, include_conversation, documents,
                   document_versions, drafts, docIdx, glog, stored_before>>
    /\ UNCHANGED outsideGen

\* if !user_msgs { return Err(AppError::Validation(..)) }
EmptyConversation ==
    /\ gpc = "start"
    /\ ~HasUserMessage(messages)
    /\ glog' = Append(glog, GetMessagesEvent)
    /\ GenReturn(ErrResult("Validation"))
    /\ UNCHANGED <<messages, include_conversation, documents,
                   document_versions, drafts, docIdx, stored_before>>
    /\ UNCHANGED outsideGen

\* get_session fails (Database) or the config lock is poisoned (Config)
SetupFails(err) ==
    /\ gpc = "start"
    /\ HasUserMessage(messages)
    /\ glog' = Append(glog, GetMessagesEvent)
    /\ GenReturn(ErrResult(err))
    /\ UNCHANGED <<messages, include_conversation, documents,
                   document_versions, drafts, docIdx, stored_before>>
    /\ UNCHANGED outsideGen

\* The run reaches the loop and the first provider call.
StartRun ==
    /\ gpc = "start"
    /\ HasUserMessage(messages)
    /\ docIdx' = 1
    /\ glog' = Append(glog, GetMessagesEvent)
                 \o BeginDocument(1, drafts, messages, include_conversation)
    /\ gpc' = "first"
    /\ UNCHANGED <<messages, include_conversation, documents,
                   document_versions, drafts, gresult, stored_before>>
    /\ UNCHANGED outsideGen

ProviderFailsKeepsDrafts(resp) ==
    /\ gpc \in {"first", "retry"}
    /\ LET err == GenerateError(kind, resp)
       IN  /\ glog' = Append(glog, FailureEvent(resp, err))
           /\ GenReturn(Propagate(err))
    /\ documents' = drafts
    /\ UNCHANGED <<messages, include_conversation, document_versions, drafts,
                   docIdx, stored_before>>
    /\ UNCHANGED outsideGen

\* generate(..).await? returns Err, on the first call or on the retry
ProviderFails(resp) ==
    /\ gpc \in {"first", "retry"}
    /\ LET err == GenerateError(kind, resp)
       IN  /\ glog' = Append(glog, FailureEvent(resp, err))
           /\ GenReturn(Propagate(err))
    /\ UNCHANGED <<messages, include_conversation, documents,
                   document_versions, drafts, docIdx, stored_before>>
    /\ UNCHANGED outsideGen

\* drafts.push((filename, content)), then the next iteration up to its
\* provider call, or the end of the loop
Accept(content, log) ==
    /\ drafts' = Append(drafts, Draft(DocConfigs[docIdx], content))
    /\ IF docIdx < Len(DocConfigs)
       THEN /\ docIdx' = docIdx + 1
            /\ glog' = log \o BeginDocument(docIdx + 1, drafts', messages,
                                            include_conversation)
            /\ gpc' = "first"
       ELSE /\ glog' = log
            /\ gpc' = "persist"
            /\ UNCHANGED docIdx

\* The first call returns content that passes the heading check.
FirstReplyAccepted(content) ==
    /\ gpc = "first"
    /\ ~NeedsRetry(content)
    /\ Accept(content, Append(glog, ReplyEvent(content)))
    /\ UNCHANGED <<messages, include_conversation, documents,
                   document_versions, gresult, stored_before>>
    /\ UNCHANGED outsideGen

\* The first call returns content that fails it: the retry call is made.
FirstReplyRejected(content) ==
    /\ gpc = "first"
    /\ NeedsRetry(content)
    /\ glog' = glog \o << ReplyEvent(content),
                          GenerateCall(DocConfigs[docIdx], drafts, messages, TRUE) >>
    /\ gpc' = "retry"
    /\ UNCHANGED <<messages, include_conversation, documents,
                   document_versions, drafts, docIdx, gresult, stored_before>>
    /\ UNCHANGED outsideGen

\* The retry returns: its content is pushed without another check.
RetryReply(content) ==
    /\ gpc = "retry"
    /\ LET first == glog[Len(glog) - 1].content
       IN  Accept(ContentAfterRetry(first, content),
                  Append(glog, ReplyEvent(content)))
    /\ UNCHANGED <<messages, include_conversation, documents,
                   document_versions, gresult, stored_before>>
    /\ UNCHANGED outsideGen

\* After the loop: CONVERSATION.md, MODEL_HANDOFF.md, replace_documents
\* (committed or rolled back), generate:complete, return.
Persist(committed) ==
    /\ gpc = "persist"
    /\ LET batch == TailDrafts(drafts, include_conversation)
           log == glog \o TailProgress(include_conversation)
                       \o <<ReplaceCall(batch)>>
           after == ReplaceDocuments(documents, document_versions, batch)
       IN  /\ drafts' = batch
           /\ IF committed
              THEN /\ documents' = after.documents
                   /\ document_versions' = after.document_versions
                   /\ glog' = Append(log, CompleteEvent(Len(after.documents)))
                   /\ GenReturn(GenOk(after.documents))
              ELSE /\ UNCHANGED <<documents, document_versions>>
                   /\ glog' = log
                   /\ GenReturn(ErrResult("Database"))
    /\ UNCHANGED <<messages, include_conversation, docIdx, stored_before>>
    /\ UNCHANGED outsideGen

GenNext ==
    \/ GetMessagesFails
    \/ EmptyConversation
    \/ \E err \in {"Database", "Config"} : SetupFails(err)
    \/ StartRun
    \/ \E resp \in GenerateFailures : ProviderFails(resp)
    \/ \E content \in Outputs : FirstReplyAccepted(content)
    \/ \E content \in Outputs : FirstReplyRejected(content)
    \/ \E content \in Outputs : RetryReply(content)
    \/ \E committed \in BOOLEAN : Persist(committed)

SpecGen == GenInit /\ [][GenNext]_vars

\* One pass of the read loop over the decoded buffer buf, up to the return
\* when the pass ends the call
PassOver(k, st, buf) ==
    LET after == ProcessLines(k, [st EXCEPT !.buffer = buf])
    IN  IF after.done THEN Finish(k, after, FALSE)
        ELSE [st |-> after, result |-> NoResult]

\* Two passes that return the same, emit the same and accumulate the same
SameOutcome(x, y) ==
    /\ x.result = y.result
    /\ x.st.events = y.st.events
    /\ x.st.full_response = y.st.full_response
    /\ x.st.done = y.st.done

\* The buffers a read can leave the loop with in the current state
NextBuffers ==
    {buffer \o FromUtf8Lossy(SubSeq(body, pos + 1, pos + n)) :
        n \in 1..(Len(body) - pos)}

\* A line of an event stream that does not begin with data:
NotDataLine(line) ==
    LET t == Trim(line) IN t = <<>> \/ Head(t) # "d"

\* buf without its complete lines that do not begin with data:
RECURSIVE WithoutNonDataLines(_)
WithoutNonDataLines(buf) ==
    LET p == FindNewline(buf)
    IN  IF p = 0 THEN buf
        ELSE LET line == SubSeq(buf, 1, p - 1)
                 rest == WithoutNonDataLines(SubSeq(buf, p + 1, Len(buf)))
             IN  IF NotDataLine(line) THEN rest ELSE line \o <<"nl">> \o rest

\* C12: on the OpenAI-compatible backend the lines that do not begin with
\* data: (comments included) have no effect: whatever a read brings, the
\* loop returns, emits and accumulates what it would with those lines
\* taken out of its buffer.
C12_NonDataLinesIgnored ==
    (kind = "OpenAiCompatible" /\ spc = "reading" /\ ~cancel) =>
        \A buf \in NextBuffers :
            SameOutcome(PassOver(kind, CurrentLocals, buf),
                        PassOver(kind, CurrentLocals, WithoutNonDataLines(buf)))

\* C12 witness: a body made of a comment, a JSON line without data: and
\* [DONE] was read to its end: nothing but Done was emitted.
C12_Witness ==
    /\ kind = "OpenAiCompatible"
    /\ body = JoinLines(<< <<":", "a">>, <<"{", "a", "}">>, <<"d", "sp", "Z">> >>)
    /\ result = OkResult(<<>>)
    /\ events = <<DoneEvent>>

\* A complete line the backend's parser rejects: not the JSON of a streamed
\* message, or an event whose data is neither JSON nor [DONE]
Unparsable(k, line) ==
    LET t == Trim(line)
    IN  IF k = "Ollama" THEN t # <<>> /\ ~ParseOllama(t).ok
        ELSE /\ t # <<>>
             /\ Head(t) = "d"
             /\ SseData(t) # <<"Z">>
             /\ ~ParseOpenAi(SseData(t)).ok

\* The terminal line of a body: done: true, [DONE] or a finish_reason
TerminalLine(k, line) ==
    LET t == Trim(line)
    IN  IF k = "Ollama" THEN ParseOllama(t).ok /\ ParseOllama(t).done
        ELSE /\ t # <<>>
             /\ Head(t) = "d"
             /\ \/ SseData(t) = <<"Z">>
                \/ /\ ParseOpenAi(SseData(t)).ok
                   /\ \E i \in 1..Len(SseData(t)) : SseData(t)[i] = "F"

\* buf without the unparsable complete lines that stand before its
\* terminal line
RECURSIVE WithoutUnparsable(_, _)
WithoutUnparsable(k, buf) ==
    LET p == FindNewline(buf)
    IN  IF p = 0 THEN buf
        ELSE LET line == SubSeq(buf, 1, p - 1)
                 rest == SubSeq(buf, p + 1, Len(buf))
             IN  IF TerminalLine(k, line) THEN buf
                 ELSE IF Unparsable(k, line) THEN WithoutUnparsable(k, rest)
                 ELSE line \o <<"nl">> \o WithoutUnparsable(k, rest)

\* C13: on both backends unparsable complete lines before the terminal
\* line have no effect: whatever a read brings, the loop returns, emits and
\* accumulates what it would with those lines taken out of its buffer, and
\* it goes on to the lines after them.
C13_UnparsableLinesSkipped ==
    (spc = "reading" /\ ~cancel) =>
        \A buf \in NextBuffers :
            SameOutcome(PassOver(kind, CurrentLocals, buf),
                        PassOver(kind, CurrentLocals,
                                 WithoutUnparsable(kind, buf)))

\* C13 witness: a local-daemon body with truncated JSON before and between
\* its content line and its terminal line was read to Ok.
C13_Witness ==
    /\ kind = "Ollama"
    /\ body = JoinLines(<< <<"{", "a">>, <<"{", "a", "}">>, <<"{", "b", "D">> >>)
    /\ result = OkResult(<<"a", "b">>)
    /\ events = <<ContentEvent(<<"a">>), ContentEvent(<<"b">>), DoneEvent>>

\* C15: a call one of whose reads stalled returns StreamInterrupted.  That
\* tells it from a cancelled call, which returns Cancelled, and from a call
\* whose body ended after its terminal marker, which returns Ok: neither
\* of the two is ever the outcome of a stall.
C15_StallIsStreamInterrupted ==
    /\ stalled => (spc = "returned" /\ result = ErrResult("StreamInterrupted"))
    /\ result.kind = "Cancelled" => (cancel /\ ~stalled)
    /\ (spc = "returned" /\ done) => (result.kind = "Ok" /\ ~stalled)

\* C15 witness: the stream stalls after content was emitted, with the
\* cancel flag set and an unterminated line in the buffer.
C15_Witness ==
    /\ stalled
    /\ cancel
    /\ buffer # <<>>
    /\ \E i \in 1..Len(events) : events[i].type = "content"
    /\ result.kind = "StreamInterrupted"

ErrorCount(evs) == Cardinality({i \in 1..Len(evs) : evs[i].type = "error"})

\* C16: a send_message call whose stream returned Cancelled returns Ok with
\* the user message, has emitted no stream:error event and has saved no
\* assistant message; one whose stream failed in another way has emitted
\* exactly one stream:error event, after everything else, and returns the
\* response of that error.
C16_CancelIsNotAnError ==
    sm_pc = "returned" =>
        /\ result.kind = "Cancelled" =>
              /\ sm_result = SendOk
              /\ ErrorCount(events) = 0
              /\ assistant_saved = <<>>
        /\ result.kind \notin {"Ok", "Cancelled"} =>
              /\ sm_result.kind = "Err"
              /\ sm_result.response.code = Code(result.kind)
              /\ ErrorCount(events) = 1
              /\ events[Len(events)].type = "error"
              /\ assistant_saved = <<>>

\* C16 witness: the user cancels after content arrived; send_message
\* returns Ok.
C16_Witness ==
    /\ sm_pc = "returned"
    /\ result.kind = "Cancelled"
    /\ full_response # <<>>
    /\ sm_result = SendOk

-----------------------------------------------------------------------------
(* docgen::quality: the readiness analyzer.  Message contents and keywords
   are strings; a keyword matches by str::contains on the lowercased
   content. *)

MUST_HAVE_TOPICS ==
    << [topic |-> "Problem statement / why this exists",
        keywords |-> <<"problem", "goal", "why", "build", "need", "pain point">>],
       [topic |-> "Core user flow (step-by-step)",
        keywords |-> <<"flow", "workflow", "step", "screen", "journey", "user does">>],
       [topic |-> "Tech stack with rationale",
        keywords |-> <<"stack", "react", "rust", "database", "framework",
                       "tauri", "why this">>],
       [topic |-> "Data model / persistence strategy",
        keywords |-> <<"data", "schema", "entity", "table", "persist", "storage">>],
       [topic |-> "Scope boundaries (what is out for v1)",
        keywords |-> <<"scope", "mvp", "v1", "out of scope", "not included",
                       "later">>] >>

SHOULD_HAVE_TOPICS ==
    << [topic |-> "Error handling approach",
        keywords |-> <<"error", "failure", "retry", "fallback", "recover">>],
       [topic |-> "Design trade-offs / decisions",
        keywords |-> <<"trade-off", "tradeoff", "decision", "chose", "alternative">>],
       [topic |-> "Testing strategy",
        keywords |-> <<"test", "verification", "qa", "integration test",
                       "unit test">>],
       [topic |-> "Security considerations",
        keywords |-> <<"security", "auth", "permissions", "privacy", "threat">>],
       [topic |-> "Performance requirements",
        keywords |-> <<"performance", "latency", "throughput", "memory",
                       "optimize">>] >>

UpperCase == "ABCDEFGHIJKLMNOPQRSTUVWXYZ"
LowerCase == "abcdefghijklmnopqrstuvwxyz"

ToAsciiLowercaseKeepsCase(text) == text

\* 'A'..='Z' to 'a'..='z'
AsciiLowercase ==
    [c \in {SubSeq(UpperCase, i, i) : i \in 1..Len(UpperCase)} |->
        LET i == CHOOSE j \in 1..Len(UpperCase) : SubSeq(UpperCase, j, j) = c
        IN  SubSeq(LowerCase, i, i)]

\* u8::to_ascii_lowercase on one character
CharToAsciiLowercase(c) ==
    IF c \in DOMAIN AsciiLowercase THEN AsciiLowercase[c] ELSE c

\* str::to_ascii_lowercase: every character mapped, by halves
RECURSIVE ToAsciiLowercase(_)
ToAsciiLowercase(text) ==
    IF Len(text) = 0 THEN ""
    ELSE IF Len(text) = 1 THEN CharToAsciiLowercase(text)
    ELSE LET half == Len(text) \div 2
         IN  ToAsciiLowercase(SubSeq(text, 1, half))
                 \o ToAsciiLowercase(SubSeq(text, half + 1, Len(text)))

\* str::contains(keyword)
Contains(content, keyword) ==
    \E i \in 1..(Len(content) - Len(keyword) + 1) :
        SubSeq(content, i, i + Len(keyword) - 1) = keyword

TopicStatusNeverMissing(matched_keywords, evidence_message_ids) ==
    IF Cardinality(matched_keywords) >= 2 /\ Len(evidence_message_ids) >= 2
    THEN "covered"
    ELSE "partial"

TopicStatusByKeywordsOnly(matched_keywords, evidence_message_ids) ==
    IF matched_keywords = {} THEN "missing"
    ELSE IF Cardinality(matched_keywords) >= 2 THEN "covered"
    ELSE "partial"

TopicStatusExactlyTwo(matched_keywords, evidence_message_ids) ==
    IF matched_keywords = {} THEN "missing"
    ELSE IF Cardinality(matched_keywords) >= 2 /\ Len(evidence_message_ids) = 2
         THEN "covered"
    ELSE "partial"

\* let status = if matched_keywords.is_empty() { Missing } else if .. >= 2
\* && .. >= 2 { Covered } else { Partial }
TopicStatus(matched_keywords, evidence_message_ids) ==
    IF matched_keywords = {} THEN "missing"
    ELSE IF Cardinality(matched_keywords) >= 2 /\ Len(evidence_message_ids) >= 2
         THEN "covered"
    ELSE "partial"

\* for message in messages { .. }: the keywords matched so far and the ids
\* of the first four messages that matched one
RECURSIVE ScanMessages(_, _, _, _)
ScanMessages(keywords, msgs, matched_keywords, evidence_message_ids) ==
    IF msgs = <<>>
    THEN [matched_keywords |-> matched_keywords,
          evidence_message_ids |-> evidence_message_ids]
    ELSE LET content == ToAsciiLowercase(Head(msgs).content)
             here == {keywords[i] : i \in {j \in 1..Len(keywords) :
                                              Contains(content, keywords[j])}}
         IN  ScanMessages(keywords, Tail(msgs), matched_keywords \cup here,
                          IF here # {} /\ Len(evidence_message_ids) < 4
                          THEN Append(evidence_message_ids, Head(msgs).id)
                          ELSE evidence_message_ids)

\* evaluate_topics
EvaluateTopics(topics, msgs) ==
    [t \in 1..Len(topics) |->
        LET scan == ScanMessages(topics[t].keywords, msgs, {}, <<>>)
        IN  [topic |-> topics[t].topic,
             status |-> TopicStatus(scan.matched_keywords,
                                    scan.evidence_message_ids),
             evidence_message_ids |-> scan.evidence_message_ids]]

UserMessagesOnly(msgs) == SelectSeq(msgs, LAMBDA m : m.role = "user")

AllMessages(msgs) == msgs

\* messages.iter().filter(|message| message.role != "system")
NonSystemMessages(msgs) == SelectSeq(msgs, LAMBDA m : m.role # "system")

\* .filter(|topic| topic.status == CoverageStatus::Missing)
MissingTopics(evaluated) == SelectSeq(evaluated, LAMBDA t : t.status = "missing")

\* analyze_planning_coverage
AnalyzePlanningCoverage(msgs) ==
    LET non_system_messages == NonSystemMessages(msgs)
        must_have == EvaluateTopics(MUST_HAVE_TOPICS, non_system_messages)
        should_have == EvaluateTopics(SHOULD_HAVE_TOPICS, non_system_messages)
        missing_must_haves == Len(MissingTopics(must_have))
        missing_should_haves == Len(MissingTopics(should_have))
    IN  [must_have |-> must_have,
         should_have |-> should_have,
         missing_must_haves |-> missing_must_haves,
         missing_should_haves |-> missing_should_haves,
         summary |-> IF missing_must_haves = 0 /\ missing_should_haves = 0
                     THEN "complete"
                     ELSE IF missing_must_haves = 0 THEN "should-have thin"
                     ELSE "must-have missing"]

\* i32::clamp
Clamp(x, lo, hi) == IF x < lo THEN lo ELSE IF x > hi THEN hi ELSE x

ScoreWeightsSwapped(missing_must, missing_should) ==
    Clamp(100 - missing_must * 6 - missing_should * 14, 0, 100) % 256

\* let mut score = 100i32; score -= ..; score = score.clamp(0, 100);
\* score as u8
Score(missing_must, missing_should) ==
    Clamp(100 - missing_must * 14 - missing_should * 6, 0, 100) % 256

\* .map(|topic| topic.topic.clone()).collect()
TopicNames(evaluated) == [i \in 1..Len(evaluated) |-> evaluated[i].topic]

\* analyze_plan_readiness
AnalyzePlanReadiness(msgs) ==
    LET cov == AnalyzePlanningCoverage(msgs)
        missing_must_haves == TopicNames(MissingTopics(cov.must_have))
        missing_should_haves == TopicNames(MissingTopics(cov.should_have))
    IN  [score |-> Score(Len(missing_must_haves), Len(missing_should_haves)),
         missing_must_haves |-> missing_must_haves,
         missing_should_haves |-> missing_should_haves,
         summary |-> IF missing_must_haves = <<>> /\ missing_should_haves = <<>>
                     THEN "strong"
                     ELSE IF missing_must_haves = <<>> THEN "optional thin"
                     ELSE "must-have missing"]

\* The message texts of the transcripts that are analyzed
ReadyContents ==
    { "Tell me more",
      "The problem is onboarding friction and our goal is to ship quickly.",
      "Build a habit tracker using SQLite and Tauri",
      "Our problem and goal: a workflow with each step, a Rust and Tauri stack, a schema for every table, MVP scope.",
      "We chose retry on failure, unit test coverage, auth and privacy, low latency and memory.",
      "We use a database" }

\* The message of the test scores_higher_for_complete_coverage
CompleteCoverageText ==
    "Our problem is onboarding friction. For v1 scope, out of scope is billing. "
    \o "Core user flow: user signs up, creates project, exports plan. "
    \o "Tech stack is React + Rust Tauri because of local-first needs. "
    \o "Data schema stores sessions/messages/documents in sqlite. "
    \o "Testing strategy includes unit and integration test coverage. "
    \o "Security and performance constraints are documented with trade-off decisions."

Message(id, role, content) == [id |-> id, role |-> role, content |-> content]

\* The transcripts: none, one or two messages of any role, the one message
\* of the test, and one text said five times
ReadyTranscripts ==
    {<<>>}
        \cup {<<Message(1, r, c)>> : r \in Roles, c \in ReadyContents}
        \cup {<<Message(1, r[1], c[1]), Message(2, r[2], c[2])>> :
                 r \in Roles \X Roles, c \in ReadyContents \X ReadyContents}
        \cup {<<Message(1, "user", CompleteCoverageText)>>}
        \cup {[i \in 1..5 |->
                 Message(i, "user",
                         "The problem is onboarding friction and our goal is to ship quickly.")]}

NoReport == [score |-> -1]

ReadyInit ==
    /\ GenIdle
    /\ SendIdle
    /\ StreamIdle
    /\ ConfIdle
    /\ ConfigIdle
    /\ ClientIdle
    /\ ChatIdle
    /\ CommandsIdle
    /\ kind = "Ollama"
    /\ transcript \in ReadyTranscripts
    /\ report = NoReport
    /\ coverage = <<>>
    /\ rpc = "input"

\* let quality = analyze_plan_readiness(&messages)
ReadinessCall ==
    /\ rpc \in {"input", "analyzed"}
    /\ report = NoReport
    /\ report' = AnalyzePlanReadiness(transcript)
    /\ rpc' = "analyzed"
    /\ UNCHANGED <<transcript, coverage>>
    /\ UNCHANGED <<outsideAnalysis, confVars>>

\* analyze_planning_coverage(&messages)
CoverageCall ==
    /\ rpc \in {"input", "analyzed"}
    /\ coverage = <<>>
    /\ coverage' = AnalyzePlanningCoverage(transcript)
    /\ rpc' = "analyzed"
    /\ UNCHANGED <<transcript, report>>
    /\ UNCHANGED <<outsideAnalysis, confVars>>

ReadyNext ==
    \/ ReadinessCall
    \/ CoverageCall

SpecReady == ReadyInit /\ [][ReadyNext]_vars

-----------------------------------------------------------------------------
(* docgen::confidence: the confidence analyzer.  Document contents are
   strings. *)

REQUIRED_DOCS ==
    <<"START_HERE.md", "SPEC.md", "CLAUDE.md", "PROMPTS.md", "README.md",
      "MODEL_HANDOFF.md">>

\* let heading_checks = [..]
HeadingChecks ==
    << [name |-> "SPEC.md", checks |-> <<"# ", "## ">>],
       [name |-> "PROMPTS.md",
        checks |-> <<"## Phase", "### Verification Checklist">>],
       [name |-> "CLAUDE.md", checks |-> <<"# ", "## Commands">>],
       [name |-> "START_HERE.md", checks |-> <<"# ", "## Step-by-Step Setup">>] >>

\* for name in ["SPEC.md", "PROMPTS.md", "README.md"]
CoreDocs == <<"SPEC.md", "PROMPTS.md", "README.md">>

\* docs.iter().map(|doc| (doc.filename.as_str(), doc)).collect(): a later
\* document of the same filename replaces the earlier one
ByName(ds) ==
    [name \in {ds[i].filename : i \in 1..Len(ds)} |->
        ds[CHOOSE i \in 1..Len(ds) :
               /\ ds[i].filename = name
               /\ \A j \in (i + 1)..Len(ds) : ds[j].filename # name]]

\* f64::round of num / den for num >= 0, den > 0: half away from zero
RoundHalfAway(num, den) == (2 * num + den) \div (2 * den)

\* factor_linear; for the totals 1..8 and the maxima 30 and 25 the binary64
\* quotient and product round as the exact value does
FactorLinear(name, max_points, passed, total) ==
    [name |-> name,
     max_points |-> max_points,
     points |-> IF total = 0 THEN 0
                ELSE RoundHalfAway(passed * max_points, total) % 256]

\* Factor 1: the required names that by_name holds, and a gap for each of
\* the others, in the order of REQUIRED_DOCS
PresentDocs(by_name) ==
    SelectSeq(REQUIRED_DOCS, LAMBDA name : name \in DOMAIN by_name)

MissingDocGaps(by_name) ==
    LET absent == SelectSeq(REQUIRED_DOCS, LAMBDA name : name \notin DOMAIN by_name)
    IN  [i \in 1..Len(absent) |-> "Missing required document: " \o absent[i]]

\* Factor 2: the checks made, in order: every marker of every checked
\* document that by_name holds
RECURSIVE ChecksMade(_, _)
ChecksMade(by_name, n) ==
    IF n = 0 THEN <<>>
    ELSE LET hc == HeadingChecks[n]
         IN  ChecksMade(by_name, n - 1)
                 \o (IF hc.name \in DOMAIN by_name
                     THEN [i \in 1..Len(hc.checks) |->
                              [name |-> hc.name,
                               marker |-> hc.checks[i],
                               passed |-> Contains(by_name[hc.name].content,
                                                   hc.checks[i])]]
                     ELSE <<>>)

MarkerGapsNone(checks) == <<>>

MarkerGaps(checks) ==
    LET failed == SelectSeq(checks, LAMBDA c : ~c.passed)
    IN  [i \in 1..Len(failed) |->
            failed[i].name \o " missing expected section marker '"
                \o failed[i].marker \o "'"]

\* doc.content.matches("[TBD").count(): no two occurrences of the pattern
\* overlap, so every position where it occurs is counted
CountMatches(content, pattern) ==
    Cardinality({i \in 1..(Len(content) - Len(pattern) + 1) :
                    SubSeq(content, i, i + Len(pattern) - 1) = pattern})

\* Factor 3: tbd_count and total_chars over the core documents present
RECURSIVE TbdTotals(_, _)
TbdTotals(by_name, n) ==
    IF n = 0 THEN [tbd_count |-> 0, total_chars |-> 0]
    ELSE LET before == TbdTotals(by_name, n - 1)
         IN  IF CoreDocs[n] \in DOMAIN by_name
             THEN LET content == by_name[CoreDocs[n]].content
                  IN  [tbd_count |-> before.tbd_count
                                        + CountMatches(content, "[TBD"),
                       total_chars |-> before.total_chars + Len(content)]
             ELSE before

\* tbd_density = if total_chars == 0 { 1.0 } else { tbd_count / total_chars }
\* against 0.0005, 0.001, 0.002 and 0.004: a quotient of two such counts and
\* a threshold round to the same binary64 value only when they are equal, so
\* the comparisons are those of the exact fractions
TbdPoints(tbd_count, total_chars) ==
    IF total_chars = 0 THEN 0
    ELSE IF tbd_count * 10000 <= 5 * total_chars THEN 20
    ELSE IF tbd_count * 1000 <= 1 * total_chars THEN 15
    ELSE IF tbd_count * 1000 <= 2 * total_chars THEN 10
    ELSE IF tbd_count * 1000 <= 4 * total_chars THEN 5
    ELSE 0

\* The u8 scores for which ((score as f64 / 100.0) * 25.0) in binary64 lies
\* below the exact value score / 4, which ends in .5: the quotient
\* score / 100 has no exact binary64 value and is rounded down
F64ProductBelowHalf == {58, 114, 226, 230}

ReadinessPointsUnscaled(readiness) ==
    IF readiness = <<>> THEN 10 ELSE readiness[1].score

\* readiness.map(|report| ((report.score as f64 / 100.0) * 25.0).round()
\* as u8).unwrap_or(10)
ReadinessPoints(readiness) ==
    IF readiness = <<>> THEN 10
    ELSE IF readiness[1].score \in F64ProductBelowHalf
         THEN (readiness[1].score * 25) \div 100
    ELSE RoundHalfAway(readiness[1].score * 25, 100) % 256

CapScoreNever(score, blocking_gaps) == score

\* if !blocking_gaps.is_empty() && score > 89 { score = 89; }
CapScore(score, blocking_gaps) ==
    IF blocking_gaps # <<>> /\ score > 89 THEN 89 ELSE score

\* let summary = ..
ConfidenceSummary(score, blocking_gaps) ==
    IF blocking_gaps = <<>>
    THEN IF score >= 85 THEN <<"High confidence">>
         ELSE IF score >= 70 THEN <<"Medium confidence">>
         ELSE <<"Low confidence">>
    ELSE <<"Confidence limited by", Len(blocking_gaps), "blocking gap(s)">>

\* add_factor, over the four factors: total_points and max_points
RECURSIVE SumOf(_, _)
SumOf(factors, field) ==
    IF factors = <<>> THEN 0
    ELSE factors[1][field] + SumOf(Tail(factors), field)

\* analyze_generation_confidence
AnalyzeGenerationConfidence(ds, readiness) ==
    LET by_name == ByName(ds)
        present == Len(PresentDocs(by_name))
        required_factor == FactorLinear("Required document coverage", 30,
                                        present, Len(REQUIRED_DOCS))
        checks == ChecksMade(by_name, Len(HeadingChecks))
        passed == Len(SelectSeq(checks, LAMBDA c : c.passed))
        total_checks == Len(checks)
        heading_factor == FactorLinear("Document structure sanity", 25, passed,
                                       IF total_checks > 1 THEN total_checks
                                       ELSE 1)
        tbd == TbdTotals(by_name, Len(CoreDocs))
        tbd_factor == [name |-> "Unresolved TBD density",
                       max_points |-> 20,
                       points |-> TbdPoints(tbd.tbd_count, tbd.total_chars)]
        readiness_factor == [name |-> "Planning readiness carry-over",
                             max_points |-> 25,
                             points |-> ReadinessPoints(readiness)]
        factors == <<required_factor, heading_factor, tbd_factor,
                     readiness_factor>>
        blocking_gaps == MissingDocGaps(by_name) \o MarkerGaps(checks)
        total_points == SumOf(factors, "points")
        max_points == SumOf(factors, "max_points")
        score == CapScore(IF max_points = 0 THEN 0
                          ELSE RoundHalfAway(total_points * 100, max_points)
                                   % 256,
                          blocking_gaps)
    IN  [score |-> score,
         factors |-> factors,
         blocking_gaps |-> blocking_gaps,
         summary |-> ConfidenceSummary(score, blocking_gaps)]

\* n characters of text without any marker
RECURSIVE Filler(_)
Filler(n) ==
    IF n <= 0 THEN ""
    ELSE IF n = 1 THEN "x"
    ELSE Filler(n \div 2) \o Filler(n - n \div 2)

\* A text of n characters with one "[TBD" marker
OneTbdIn(n) == "[TBD]" \o Filler(n - 5)

Doc(filename, content) == [filename |-> filename, content |-> content]

\* The contents each required document comes with when it is in the set
ContentsOf ==
    [name \in {REQUIRED_DOCS[i] : i \in 1..Len(REQUIRED_DOCS)} |->
        CASE name = "START_HERE.md" ->
                 {"# Start Here\n## Step-by-Step Setup\nno tbd here",
                  "# Start Here"}
          [] name = "SPEC.md" ->
                 {"# Spec\n## Design", "# Spec", "## Design [TBD: later]"}
          [] name = "CLAUDE.md" ->
                 {"# Claude\n## Commands", "Claude"}
          [] name = "PROMPTS.md" ->
                 {"# Prompts\n## Phase 1\n### Verification Checklist",
                  "## Phase 1"}
          [] name = "README.md" ->
                 {"# Readme", "[TBD] [TBD] [TBD]", OneTbdIn(249),
                  OneTbdIn(250), OneTbdIn(1000), OneTbdIn(2000)}
          [] name = "MODEL_HANDOFF.md" -> {"# Handoff"}]

\* The document of that name with each of its contents, or no document
Choices(name) == {<<>>} \cup {<<Doc(name, c)>> : c \in ContentsOf[name]}

\* The document sets: every choice for every required name, in the order of
\* REQUIRED_DOCS; one set that holds SPEC.md twice; one with an empty
\* document and a document of another name
ConfDocSets ==
    {a \o b \o c \o d \o e \o f :
        a \in Choices("START_HERE.md"), b \in Choices("SPEC.md"),
        c \in Choices("CLAUDE.md"), d \in Choices("PROMPTS.md"),
        e \in Choices("README.md"), f \in Choices("MODEL_HANDOFF.md")}
        \cup {<<Doc("SPEC.md", "# Spec\n## Design"), Doc("SPEC.md", "Spec")>>,
              <<Doc("SPEC.md", ""), Doc("CONVERSATION.md", "# Talk")>>}

\* The complete pack of the test complete_pack_scores_higher
CompletePack ==
    <<Doc("START_HERE.md", "# Start Here\n## Step-by-Step Setup\nno tbd here"),
      Doc("SPEC.md", "# Spec\n## Design"),
      Doc("CLAUDE.md", "# Claude\n## Commands"),
      Doc("PROMPTS.md", "# Prompts\n## Phase 1\n### Verification Checklist"),
      Doc("README.md", "# Readme"),
      Doc("MODEL_HANDOFF.md", "# Handoff")>>

\* The readiness reports: none, or one with a score of 0..100
Readiness(score) == <<[score |-> score]>>

\* Every document set with no report or one of five, and two document sets
\* with every report
ConfInit ==
    /\ GenIdle
    /\ SendIdle
    /\ StreamIdle
    /\ ReadyIdle
    /\ ConfigIdle
    /\ ClientIdle
    /\ ChatIdle
    /\ CommandsIdle
    /\ kind = "Ollama"
    /\ \/ /\ cdocs \in ConfDocSets
          /\ creadiness \in {<<>>} \cup {Readiness(n) : n \in {0, 58, 86, 92, 100}}
       \/ /\ cdocs \in {CompletePack, <<Doc("README.md", "# Readme")>>}
          /\ creadiness \in {Readiness(n) : n \in 0..100}
    /\ confidence = <<>>
    /\ cpc = "input"

\* docgen::analyze_generation_confidence(&docs, quality.as_ref())
ConfidenceCall ==
    /\ cpc = "input"
    /\ confidence' = <<AnalyzeGenerationConfidence(cdocs, creadiness)>>
    /\ cpc' = "analyzed"
    /\ UNCHANGED <<cdocs, creadiness>>
    /\ UNCHANGED <<outsideAnalysis, readyVars>>

ConfNext == ConfidenceCall

SpecConf == ConfInit /\ [][ConfNext]_vars

-----------------------------------------------------------------------------
(* config: validate_config and save_config; commands: update_config and
   update_search_config *)

\* The characters str::trim removes that occur in the inputs
WhiteSpace == {" ", "\t", "\n", "\r"}

RECURSIVE TrimStartStr(_)
TrimStartStr(s) ==
    IF Len(s) > 0 /\ SubSeq(s, 1, 1) \in WhiteSpace
    THEN TrimStartStr(SubSeq(s, 2, Len(s)))
    ELSE s

RECURSIVE TrimEndStr(_)
TrimEndStr(s) ==
    IF Len(s) > 0 /\ SubSeq(s, Len(s), Len(s)) \in WhiteSpace
    THEN TrimEndStr(SubSeq(s, 1, Len(s) - 1))
    ELSE s

\* str::trim
TrimStr(s) == TrimEndStr(TrimStartStr(s))

\* The index of the first c in s, 0 when there is none
IndexOf(s, c) ==
    IF \E i \in 1..Len(s) : SubSeq(s, i, i) = c
    THEN CHOOSE i \in 1..Len(s) :
             /\ SubSeq(s, i, i) = c
             /\ \A j \in 1..(i - 1) : SubSeq(s, j, j) # c
    ELSE 0

Letters == {SubSeq(LowerCase, i, i) : i \in 1..Len(LowerCase)}
              \cup {SubSeq(UpperCase, i, i) : i \in 1..Len(UpperCase)}

Digits == {SubSeq("0123456789", i, i) : i \in 1..10}

\* A URL scheme: a letter, then letters, digits, "+", "-" and "."
IsScheme(s) ==
    /\ Len(s) > 0
    /\ SubSeq(s, 1, 1) \in Letters
    /\ \A i \in 2..Len(s) :
           SubSeq(s, i, i) \in Letters \cup Digits \cup {"+", "-", "."}

RECURSIVE AfterSlashes(_)
AfterSlashes(s) ==
    IF Len(s) > 0 /\ SubSeq(s, 1, 1) \in {"/", "\\"}
    THEN AfterSlashes(SubSeq(s, 2, Len(s)))
    ELSE s

\* url::Url::parse: without a scheme the input is a relative URL, which has
\* no base; the scheme is lowercased; http and https need a host
UrlParse(input) ==
    LET s == TrimStr(input)
        colon == IndexOf(s, ":")
    IN  IF colon = 0 \/ ~IsScheme(SubSeq(s, 1, colon - 1))
        THEN [ok |-> FALSE, error |-> "relative URL without a base"]
        ELSE LET scheme == ToAsciiLowercase(SubSeq(s, 1, colon - 1))
                 rest == AfterSlashes(SubSeq(s, colon + 1, Len(s)))
             IN  IF /\ scheme \in {"http", "https"}
                    /\ \/ rest = ""
                       \/ SubSeq(rest, 1, 1) \in {"?", "#", ":"}
                 THEN [ok |-> FALSE, error |-> "empty host"]
                 ELSE [ok |-> TRUE, scheme |-> scheme]

ConfigOk == [ok |-> TRUE]
MissingField(field) == [ok |-> FALSE, error |-> <<"MissingField", field>>]
InvalidValue(field) == [ok |-> FALSE, error |-> <<"InvalidValue", field>>]

\* The http/https check of a parsed URL
SchemeError(field, url) ==
    LET parsed == UrlParse(url)
    IN  IF ~parsed.ok THEN InvalidValue(field)
        ELSE IF parsed.scheme # "http" /\ parsed.scheme # "https"
             THEN InvalidValue(field)
        ELSE ConfigOk

\* validate_config
ValidateConfig(cfg) ==
    IF cfg.llm.provider \notin {"ollama", "openai_compatible"}
    THEN InvalidValue("llm.provider")
    ELSE IF TrimStr(cfg.llm.model) = "" THEN MissingField("llm.model")
    ELSE IF ~(cfg.llm.temperature >= 0 /\ cfg.llm.temperature <= 20)
         THEN InvalidValue("llm.temperature")
    ELSE IF TrimStr(cfg.llm.base_url) = "" THEN MissingField("llm.base_url")
    ELSE IF ~SchemeError("llm.base_url", cfg.llm.base_url).ok
         THEN InvalidValue("llm.base_url")
    ELSE IF cfg.search.provider \notin {"tavily", "duckduckgo", "searxng", "none"}
         THEN InvalidValue("search.provider")
    ELSE IF /\ cfg.search.enabled
            /\ cfg.search.provider = "tavily"
            /\ TrimStr(cfg.search.tavily_api_key) = ""
         THEN MissingField("search.tavily_api_key")
    ELSE IF /\ cfg.search.enabled
            /\ cfg.search.provider = "searxng"
            /\ cfg.search.searxng_url = ""
         THEN MissingField("search.searxng_url")
    ELSE IF /\ cfg.search.enabled
            /\ cfg.search.provider = "searxng"
            /\ cfg.search.searxng_url # ""
            /\ ~SchemeError("search.searxng_url", cfg.search.searxng_url).ok
         THEN InvalidValue("search.searxng_url")
    ELSE IF TrimStr(cfg.output.default_save_path) = ""
         THEN MissingField("output.default_save_path")
    ELSE IF cfg.output.default_target \notin
                {"claude", "codex", "cursor", "gemini", "generic"}
         THEN InvalidValue("output.default_target")
    ELSE ConfigOk

\* What writing config.yaml can come to: written; not written (create, write,
\* sync or rename failed); written, but the sync of the directory failed
IoOutcomes == {"written", "not written", "written, directory not synced"}

\* save_config: the file afterwards and the value returned
SaveConfig(cfg, file, io) ==
    LET valid == ValidateConfig(cfg)
    IN  IF ~valid.ok
        THEN [file |-> file, result |-> [kind |-> "Err", error |-> valid.error]]
        ELSE IF io = "written"
             THEN [file |-> cfg, result |-> [kind |-> "Ok"]]
        ELSE [file |-> IF io = "not written" THEN file ELSE cfg,
              result |-> [kind |-> "Err", error |-> <<"Failed to write config">>]]

\* The search settings and the whole configurations the frontend sends
SearchConfigs ==
    {DefaultConfig.search,
     SearchConfig(TRUE, "tavily", "", ""),
     SearchConfig(FALSE, "tavily", "", ""),
     SearchConfig(TRUE, "searxng", "", "ftp://search.local"),
     SearchConfig(TRUE, "searxng", "", "https://search.local"),
     SearchConfig(TRUE, "bing", "", "")}

LlmConfigs ==
    {DefaultConfig.llm,
     LlmConfig("openai_compatible", "local-model", "http://localhost:1234/",
               <<"sk-local">>, 0),
     LlmConfig("ollama", ConfigModel, "HTTPS://Models.Example.com/v1", <<>>, 20),
     LlmConfig("lmstudio", ConfigModel, ConfigBaseUrl, <<>>, 7),
     LlmConfig("remote_cloud", ConfigModel, ConfigBaseUrl, <<>>, 7),
     LlmConfig("ollama", "  ", ConfigBaseUrl, <<>>, 7),
     LlmConfig("ollama", ConfigModel, ConfigBaseUrl, <<>>, 21),
     LlmConfig("ollama", ConfigModel, ConfigBaseUrl, <<>>, -1),
     LlmConfig("ollama", ConfigModel, "", <<>>, 7),
     LlmConfig("ollama", ConfigModel, "file:///etc/passwd", <<>>, 7),
     LlmConfig("ollama", ConfigModel, "localhost:11434", <<>>, 7),
     LlmConfig("ollama", ConfigModel, "not a url", <<>>, 7),
     LlmConfig("ollama", ConfigModel, "http://", <<>>, 7)}

AppConfigs ==
    {[llm |-> l, search |-> DefaultConfig.search, output |-> DefaultConfig.output] :
        l \in LlmConfigs}
        \cup {[llm |-> DefaultConfig.llm, search |-> sc,
               output |-> DefaultConfig.output] : sc \in SearchConfigs}
        \cup {[llm |-> DefaultConfig.llm, search |-> DefaultConfig.search,
               output |-> o] :
                 o \in {OutputConfig("", "generic"),
                        OutputConfig("~/Projects", "copilot"),
                        OutputConfig("/tmp/out", "claude")}}

\* load_or_create_config: the file parsed and validated, or the defaults
\* with the error of the load
ConfigInit ==
    /\ GenIdle
    /\ SendIdle
    /\ StreamIdle
    /\ ReadyIdle
    /\ ConfIdle
    /\ ClientIdle
    /\ ChatIdle
    /\ CommandsIdle
    /\ kind = "Ollama"
    /\ config = DefaultConfig
    /\ config_file = DefaultConfig
    /\ config_error \in {<<>>, <<"Config parse error">>}
    /\ cfg_result = [kind |-> "none"]

\* The part of both commands after the assignment to the locked
\* configuration: save_config(..)?, then the load error is cleared
SaveAndReturn(new, io, call) ==
    LET saved == SaveConfig(new, config_file, io)
    IN  /\ config_file' = saved.file
        /\ IF saved.result.kind = "Ok"
           THEN /\ config_error' = <<>>
                /\ cfg_result' = [kind |-> "Ok", call |-> call, config |-> new]
           ELSE /\ config_error' = config_error
                /\ cfg_result' = [kind |-> "Err", call |-> call,
                                  code |-> "config_error",
                                  error |-> saved.result.error]

\* update_config: *state_config = config; save_config(&state_config)?; ..
UpdateConfig(cfg, io) ==
    /\ config' = cfg
    /\ SaveAndReturn(cfg, io, "update_config")
    /\ UNCHANGED <<streamVars, genVars, sendVars, readyVars, confVars,
                   clientVars, chatVars, storeVars, cmdVars, pullHist>>

\* update_search_config: config.search = search_config; save_config(&config)?
UpdateSearchConfig(search_config, io) ==
    LET new == [config EXCEPT !.search = search_config]
    IN  /\ config' = new
        /\ SaveAndReturn(new, io, "update_search_config")
        /\ UNCHANGED <<streamVars, genVars, sendVars, readyVars, confVars,
                       clientVars, chatVars, storeVars, cmdVars, pullHist>>

ConfigNext ==
    \/ \E cfg \in AppConfigs, io \in IoOutcomes : UpdateConfig(cfg, io)
    \/ \E sc \in SearchConfigs, io \in IoOutcomes : UpdateSearchConfig(sc, io)

SpecConfig == ConfigInit /\ [][ConfigNext]_vars

-----------------------------------------------------------------------------
(* llm: the operations of OllamaClient.  Each begins with
   ProviderKind::from_config(config)? and builds its request from the
   configuration of the call. *)

Validation(message) == [kind |-> "Validation", text |-> message]

FromProviderDefaultsToOllama(provider) ==
    LET name == ToAsciiLowercase(TrimStr(provider))
    IN  IF name \in {"openai_compatible", "openai-compatible", "lmstudio"}
        THEN [ok |-> TRUE, kind |-> "OpenAiCompatible"]
        ELSE [ok |-> TRUE, kind |-> "Ollama"]

\* ProviderKind::from_provider
FromProvider(provider) ==
    LET name == ToAsciiLowercase(TrimStr(provider))
    IN  IF name = "ollama" THEN [ok |-> TRUE, kind |-> "Ollama"]
        ELSE IF name \in {"openai_compatible", "openai-compatible", "lmstudio"}
             THEN [ok |-> TRUE, kind |-> "OpenAiCompatible"]
        ELSE [ok |-> FALSE,
              error |-> Validation(<<"Unsupported local provider", name>>)]

\* ProviderKind::from_config
FromConfig(cfg) == FromProvider(cfg.provider)

RECURSIVE TrimEndMatches(_, _)
TrimEndMatches(s, c) ==
    IF Len(s) > 0 /\ SubSeq(s, Len(s), Len(s)) = c
    THEN TrimEndMatches(SubSeq(s, 1, Len(s) - 1), c)
    ELSE s

RECURSIVE TrimStartMatches(_, _)
TrimStartMatches(s, c) ==
    IF Len(s) > 0 /\ SubSeq(s, 1, 1) = c
    THEN TrimStartMatches(SubSeq(s, 2, Len(s)), c)
    ELSE s

\* OllamaClient::endpoint
Endpoint(base_url, path) ==
    TrimEndMatches(base_url, "/") \o "/" \o TrimStartMatches(path, "/")

\* self.client.get(url) / .post(url): a request without credentials
Request(method, url) ==
    [method |-> method, url |-> url, authorization |-> <<>>]

WithAuthUntrimmed(request, api_key) ==
    IF api_key # <<>> /\ api_key[1] # ""
    THEN [request EXCEPT !.authorization = <<"Bearer " \o api_key[1]>>]
    ELSE request

\* OllamaClient::with_auth
WithAuth(request, api_key) ==
    IF api_key # <<>> /\ TrimStr(api_key[1]) # ""
    THEN [request EXCEPT !.authorization = <<"Bearer " \o TrimStr(api_key[1])>>]
    ELSE request

\* The request of an operation on a backend of kind k
RequestOf(k, cfg, method, ollama_path, openai_path) ==
    IF k = "OpenAiCompatible"
    THEN WithAuth(Request(method, Endpoint(cfg.base_url, openai_path)),
                  cfg.api_key)
    ELSE Request(method, Endpoint(cfg.base_url, ollama_path))

\* What a backend answers: no connection, or a status, with a body that is
\* or is not the expected JSON
Replies ==
    {[sent |-> r.sent, status |-> r.status, json |-> j] :
        r \in Responses, j \in BOOLEAN}

\* The provider names and the API keys of the configurations the client is
\* called with
ProviderNames ==
    {"ollama", "Ollama", " ollama\n", "openai_compatible", "openai-compatible",
     "OpenAI-Compatible", "LMStudio", "lmstudio ", "remote_cloud", "", "ollama2",
     "lm studio", "openai"}

ApiKeys == {<<>>, <<"">>, <<"  ">>, <<"sk-local">>, <<" sk-local\n">>}

ClientConfigs ==
    {LlmConfig(p, ConfigModel, ConfigBaseUrl, key, 7) :
        p \in ProviderNames, key \in ApiKeys}

\* The bodies a backend of kind k streams back to a call of the client
ClientBodies(k) == {JoinLines(<<l>>) : l \in LineForms(k)}

ClientOk(value) == [kind |-> "Ok", value |-> value]

\* A call of an operation with a configuration, on a new client
ClientInit ==
    /\ GenIdle
    /\ SendIdle
    /\ StreamIdle
    /\ ReadyIdle
    /\ ConfIdle
    /\ ConfigIdle
    /\ ChatIdle
    /\ CommandsIdle
    /\ kind = "Ollama"
    /\ llm \in ClientConfigs
    /\ cl_op = "none"
    /\ cl_pc = "input"
    /\ requests = <<>>
    /\ pull_events = <<>>
    /\ pull_cancelled = FALSE
    /\ cl_result = [kind |-> "none"]
    /\ pull_body = <<>>
    /\ pull_pos = 0
    /\ pull_buffer = <<>>
    /\ pull_completed = FALSE

outsideClient == <<genVars, sendVars, readyVars, confVars, configVars,
                   chatVars, storeVars, cmdVars>>

pullLocals == <<pull_body, pull_pos, pull_buffer, pull_completed>>

\* The call op returns res.
ClientReturn(op, res) ==
    /\ cl_op' = op
    /\ cl_result' = res
    /\ cl_pc' = "returned"

\* list_models and list_models_openai
ListModels(reply) ==
    /\ cl_pc = "input"
    /\ LET k == FromConfig(llm)
       IN  IF ~k.ok
           THEN /\ ClientReturn("list_models", k.error)
                /\ UNCHANGED requests
           ELSE /\ requests' = Append(requests,
                                      RequestOf(k.kind, llm, "GET", "/api/tags",
                                                "/v1/models"))
                /\ ClientReturn("list_models",
                       IF ~reply.sent THEN OllamaConnection(llm.base_url)
                       ELSE IF ~IsSuccess(reply.status)
                            THEN LlmRequest(ReturnedMessage(k.kind, reply.status))
                       ELSE IF ~reply.json
                            THEN LlmRequest(
                                     IF k.kind = "Ollama"
                                     THEN <<"Failed to parse Ollama response">>
                                     ELSE <<"Failed to parse OpenAI-compatible models response">>)
                       ELSE ClientOk(<<"models">>))
    /\ UNCHANGED <<llm, pull_events, pull_cancelled, pullLocals>>
    /\ UNCHANGED <<streamVars, outsideClient, pullHist>>

\* check_connection
CheckConnection(reply) ==
    /\ cl_pc = "input"
    /\ LET k == FromConfig(llm)
       IN  IF ~k.ok
           THEN /\ ClientReturn("check_connection", k.error)
                /\ UNCHANGED requests
           ELSE /\ requests' = Append(requests,
                                      RequestOf(k.kind, llm, "GET", "/api/tags",
                                                "/v1/models"))
                /\ ClientReturn("check_connection",
                       IF ~reply.sent THEN OllamaConnection(llm.base_url)
                       ELSE ClientOk(IsSuccess(reply.status)))
    /\ UNCHANGED <<llm, pull_events, pull_cancelled, pullLocals>>
    /\ UNCHANGED <<streamVars, outsideClient, pullHist>>

\* The result of check_connection for a reply
ConnectionProbe(c, reply) ==
    LET k == FromConfig(c)
    IN  IF ~k.ok THEN k.error
        ELSE IF ~reply.sent THEN OllamaConnection(c.base_url)
        ELSE ClientOk(IsSuccess(reply.status))

\* model.split(':').next().unwrap_or(model)
ModelBase(model) ==
    IF Contains(model, ":")
    THEN SubSeq(model, 1,
                (CHOOSE i \in 1..Len(model) :
                    /\ SubSeq(model, i, i) = ":"
                    /\ ~Contains(SubSeq(model, 1, i - 1), ":")) - 1)
    ELSE model

\* str::starts_with
StartsWith(text, prefix) ==
    /\ Len(text) >= Len(prefix)
    /\ SubSeq(text, 1, Len(prefix)) = prefix

\* check_model: list_models(config).await?, then the match on the kind;
\* models are the names list_models returns for a reply that parses
ModelProbe(c, model, reply, models) ==
    LET k == FromConfig(c)
    IN  IF ~k.ok THEN k.error
        ELSE IF ~reply.sent THEN OllamaConnection(c.base_url)
        ELSE IF ~IsSuccess(reply.status)
             THEN LlmRequest(ReturnedMessage(k.kind, reply.status))
        ELSE IF ~reply.json
             THEN LlmRequest(
                      IF k.kind = "Ollama"
                      THEN <<"Failed to parse Ollama response">>
                      ELSE <<"Failed to parse OpenAI-compatible models response">>)
        ELSE IF k.kind = "OpenAiCompatible"
             THEN ClientOk(\E i \in 1..Len(models) : models[i] = model)
        ELSE ClientOk(\E i \in 1..Len(models) :
                         \/ models[i] = model
                         \/ /\ ~Contains(model, ":")
                            /\ StartsWith(models[i], ModelBase(model) \o ":"))

\* Result<bool, AppError>::unwrap_or(false)
UnwrapOrFalse(res) == IF res.kind = "Ok" THEN res.value ELSE FALSE

ModelAvailableUnguarded(connected, probe) == UnwrapOrFalse(probe)

\* let model_available = if connected { check_model(..).unwrap_or(false) }
\* else { false }
ModelAvailable(connected, probe) ==
    IF connected THEN UnwrapOrFalse(probe) ELSE FALSE

\* The model lists a backend answers with
ModelLists ==
    { <<>>, <<"qwen3-coder">>, <<"llama3:8b", "qwen3-coder:latest">>,
      <<"qwen3-coder-next:1">>, <<"llama3:8b">> }

\* health_check: check_connection, then check_model if that said true.
\* reply is the answer to the first request, models_reply to the second.
HealthCheck(reply, models_reply, models) ==
    /\ cl_pc = "input"
    /\ LET k == FromConfig(llm)
           connected == UnwrapOrFalse(ConnectionProbe(llm, reply))
           probe == ModelProbe(llm, llm.model, models_reply, models)
           first == IF k.ok
                    THEN <<RequestOf(k.kind, llm, "GET", "/api/tags",
                                     "/v1/models")>>
                    ELSE <<>>
       IN  /\ requests' = requests \o first
                              \o (IF connected THEN first ELSE <<>>)
           /\ ClientReturn("health_check",
                           ClientOk(<<connected,
                                      ModelAvailable(connected, probe)>>))
    /\ UNCHANGED <<llm, pull_events, pull_cancelled, pullLocals>>
    /\ UNCHANGED <<streamVars, outsideClient, pullHist>>

\* generate and generate_openai; content is the text of the answer
Generate(reply, content) ==
    /\ cl_pc = "input"
    /\ LET k == FromConfig(llm)
       IN  IF ~k.ok
           THEN /\ ClientReturn("generate", k.error)
                /\ UNCHANGED requests
           ELSE /\ requests' = Append(requests,
                                      RequestOf(k.kind, llm, "POST", "/api/chat",
                                                "/v1/chat/completions"))
                /\ ClientReturn("generate",
                       IF HttpFailed(reply) \/ ~reply.json
                       THEN GenerateError(k.kind, reply)
                       ELSE IF k.kind = "OpenAiCompatible" /\ content = <<>>
                            THEN LlmRequest(<<"OpenAI-compatible endpoint returned an empty response">>)
                       ELSE ClientOk(content))
    /\ UNCHANGED <<llm, pull_events, pull_cancelled, pullLocals>>
    /\ UNCHANGED <<streamVars, outsideClient, pullHist>>

\* stream_chat and stream_chat_openai, to send(): the call goes on as the
\* streaming call above, on the body b
StreamChatStart(b) ==
    /\ cl_pc = "input"
    /\ LET k == FromConfig(llm)
       IN  IF ~k.ok
           THEN /\ ClientReturn("stream_chat", k.error)
                /\ UNCHANGED <<requests, kind, body, spc>>
           ELSE /\ b \in ClientBodies(k.kind)
                /\ requests' = Append(requests,
                                      RequestOf(k.kind, llm, "POST", "/api/chat",
                                                "/v1/chat/completions"))
                /\ kind' = k.kind
                /\ body' = b
                /\ spc' = "sending"
                /\ cl_op' = "stream_chat"
                /\ cl_pc' = "streaming"
                /\ UNCHANGED cl_result
    /\ UNCHANGED <<llm, pull_events, pull_cancelled, pullLocals>>
    /\ UNCHANGED <<pos, buffer, full_response, done, cancel, events, result,
                   fault, response, stalled>>
    /\ UNCHANGED <<outsideClient, pullHist>>

\* The streaming call returned
StreamChatReturn ==
    /\ cl_pc = "streaming"
    /\ spc = "returned"
    /\ ClientReturn("stream_chat",
                    IF result.kind = "Ok" THEN ClientOk(result.text) ELSE result)
    /\ UNCHANGED <<llm, requests, pull_events, pull_cancelled, pullLocals>>
    /\ UNCHANGED <<streamVars, outsideClient, pullHist>>

-----------------------------------------------------------------------------
(* pull_model: newline-delimited JSON progress of POST /api/pull *)

PullProgress(status) == [status |-> status]

\* serde_json::from_str::<OllamaPullResponse>(line): every field is optional;
\* "st" is a status other than success, "ok" the status success, "er" an
\* error, and a key given twice is an error of the parser.
ParsePull(line) ==
    LET inner == SubSeq(line, 2, Len(line) - 1)
        statuses == {i \in 1..Len(inner) : inner[i] \in {"st", "ok"}}
        errors == {i \in 1..Len(inner) : inner[i] = "er"}
    IN  IF /\ Len(line) >= 2
           /\ line[1] = "{"
           /\ line[Len(line)] = "}"
           /\ \A i \in 1..Len(inner) : inner[i] \in {"st", "ok", "er"}
           /\ Cardinality(statuses) <= 1
           /\ Cardinality(errors) <= 1
        THEN [ok |-> TRUE,
              status |-> IF statuses = {} THEN <<>>
                         ELSE IF \E i \in statuses : inner[i] = "ok"
                              THEN <<"success">>
                         ELSE <<"pulling manifest">>,
              error |-> IF errors = {} THEN <<>> ELSE <<"pull failed">>]
        ELSE [ok |-> FALSE, status |-> <<>>, error |-> <<>>]

\* The locals of the read loop of pull_model, and the error it left with
PullLocals(buf, evs, completed, failed) ==
    [buffer |-> buf, events |-> evs, completed |-> completed,
     failed |-> failed]

\* if let Some(ref err) = parsed.error { emit; return Err(LlmRequest(err)) }
PullFail(st, err) ==
    [st EXCEPT !.events = Append(@, PullProgress("error: " \o err)),
               !.failed = <<LlmRequest(<<err>>)>>]

\* The inner loop: while let Some(newline_pos) = buffer.find('\n')
RECURSIVE ProcessPullLines(_)
ProcessPullLines(st) ==
    LET p == FindNewline(st.buffer)
    IN  IF p = 0 THEN st
        ELSE LET line == Trim(SubSeq(st.buffer, 1, p - 1))
                 st1 == [st EXCEPT !.buffer = SubSeq(@, p + 1, Len(@))]
                 parsed == ParsePull(line)
             IN  IF line = <<>> THEN ProcessPullLines(st1)
                 ELSE IF ~parsed.ok THEN ProcessPullLines(st1)
                 ELSE IF parsed.error # <<>> THEN PullFail(st1, parsed.error[1])
                 ELSE LET status == IF parsed.status = <<>> THEN ""
                                    ELSE parsed.status[1]
                          st2 == [st1 EXCEPT
                                     !.events = Append(@, PullProgress(status))]
                      IN  IF status = "success"
                          THEN [st2 EXCEPT !.completed = TRUE]
                          ELSE ProcessPullLines(st2)

\* if !completed { let remaining = buffer.trim(); .. }
PullTail(st) ==
    LET remaining == Trim(st.buffer)
        parsed == ParsePull(remaining)
    IN  IF st.completed \/ remaining = <<>> \/ ~parsed.ok THEN st
        ELSE IF parsed.error # <<>> THEN PullFail(st, parsed.error[1])
        ELSE IF parsed.status = <<>> THEN st
        ELSE [st EXCEPT
                 !.events = Append(@, PullProgress(parsed.status[1])),
                 !.completed = (parsed.status[1] = "success")]

PullCancelled(evs) == Append(evs, PullProgress("cancelled"))

PullLineForms ==
    { <<"{", "st", "}">>,          \* a status
      <<"{", "ok", "}">>,          \* status: success
      <<"{", "er", "}">>,          \* an error
      <<"{", "}">>,                \* no status, no error
      <<"{", "st">>,               \* truncated JSON
      <<"sp">> }                   \* a blank line

PullBodies ==
    LET joined == {JoinLines(<<l>>) : l \in PullLineForms}
                      \cup {JoinLines(<<l, m>>) : l \in {<<"{", "st", "}">>, <<"{", "st">>},
                                                  m \in PullLineForms}
    IN  joined \cup {SubSeq(b, 1, Len(b) - 1) : b \in joined}

PullFlagResetFirst(k, flag) == FALSE

\* self.pull_cancelled.store(false, ..), which comes after the match on the
\* kind
PullFlagAtStart(k, flag) == IF k = "Ollama" THEN FALSE ELSE flag

\* pull_model, to send()
PullModelStart(b) ==
    /\ cl_pc = "input"
    /\ cl_op' = "pull_model"
    /\ LET k == FromConfig(llm)
       IN  IF ~k.ok
           THEN /\ cl_result' = k.error
                /\ cl_pc' = "returned"
                /\ UNCHANGED <<requests, pull_events, pull_cancelled, pull_body>>
           ELSE IF k.kind = "OpenAiCompatible"
           THEN /\ pull_events' = Append(pull_events,
                       PullProgress("error: model pull not supported for this provider"))
                /\ cl_result' = Validation(<<"Model pull is only supported for Ollama. Load models directly in your local runtime.">>)
                /\ cl_pc' = "returned"
                /\ pull_cancelled' = PullFlagAtStart(k.kind, pull_cancelled)
                /\ UNCHANGED <<requests, pull_body>>
           ELSE /\ pull_cancelled' = PullFlagAtStart(k.kind, pull_cancelled)
                /\ requests' = Append(requests,
                       Request("POST", Endpoint(llm.base_url, "/api/pull")))
                /\ b \in PullBodies
                /\ pull_body' = b
                /\ cl_pc' = "pull_sending"
                /\ UNCHANGED <<cl_result, pull_events>>
    /\ UNCHANGED <<llm, pull_pos, pull_buffer, pull_completed>>
    /\ UNCHANGED <<streamVars, outsideClient, pullHist>>

\* send().await and the status check of pull_model
PullSend(model_name, resp) ==
    /\ cl_pc = "pull_sending"
    /\ IF ~resp.sent
       THEN /\ cl_result' = OllamaConnection(llm.base_url)
            /\ cl_pc' = "returned"
       ELSE IF resp.status = 404
       THEN /\ cl_result' = ModelNotFound(model_name)
            /\ cl_pc' = "returned"
       ELSE IF ~IsSuccess(resp.status)
       THEN /\ cl_result' = LlmRequest(ReturnedMessage("Ollama", resp.status))
            /\ cl_pc' = "returned"
       ELSE /\ cl_pc' = "pull_reading"
            /\ UNCHANGED cl_result
    /\ UNCHANGED <<llm, cl_op, requests, pull_events, pull_cancelled,
                   pullLocals>>
    /\ UNCHANGED <<streamVars, outsideClient, pullHist>>

CurrentPullLocals ==
    PullLocals(pull_buffer, pull_events, pull_completed, <<>>)

\* stream.next() brought Some(Ok(chunk)) of n bytes
PullChunk(n) ==
    /\ cl_pc = "pull_reading"
    /\ n \in 1..(Len(pull_body) - pull_pos)
    /\ pull_pos' = pull_pos + n
    /\ IF pull_cancelled
       THEN /\ pull_events' = PullCancelled(pull_events)
            /\ cl_result' = ErrResult("Cancelled")
            /\ cl_pc' = "returned"
            /\ UNCHANGED <<pull_buffer, pull_completed>>
       ELSE LET chunk == SubSeq(pull_body, pull_pos + 1, pull_pos + n)
                st == ProcessPullLines(
                          [CurrentPullLocals EXCEPT
                              !.buffer = @ \o FromUtf8Lossy(chunk)])
            IN  /\ pull_buffer' = st.buffer
                /\ pull_events' = st.events
                /\ pull_completed' = st.completed
                /\ IF st.failed # <<>>
                   THEN /\ cl_result' = st.failed[1]
                        /\ cl_pc' = "returned"
                   ELSE /\ cl_pc' = IF st.completed THEN "pull_finishing"
                                    ELSE "pull_reading"
                        /\ UNCHANGED cl_result
    /\ UNCHANGED <<llm, cl_op, requests, pull_cancelled, pull_body>>
    /\ UNCHANGED <<streamVars, outsideClient, pullHist>>

\* stream.next() brought Some(Err(_))
PullChunkError ==
    /\ cl_pc = "pull_reading"
    /\ IF pull_cancelled
       THEN /\ pull_events' = PullCancelled(pull_events)
            /\ cl_result' = ErrResult("Cancelled")
       ELSE /\ cl_result' = ErrResult("StreamInterrupted")
            /\ UNCHANGED pull_events
    /\ cl_pc' = "returned"
    /\ UNCHANGED <<llm, cl_op, requests, pull_cancelled, pullLocals>>
    /\ UNCHANGED <<streamVars, outsideClient, pullHist>>

\* No chunk within 120 seconds
PullTimeout ==
    /\ cl_pc = "pull_reading"
    /\ cl_result' = ErrResult("StreamInterrupted")
    /\ cl_pc' = "returned"
    /\ UNCHANGED <<llm, cl_op, requests, pull_events, pull_cancelled,
                   pullLocals>>
    /\ UNCHANGED <<streamVars, outsideClient, pullHist>>

\* stream.next() brought None
PullEnd ==
    /\ cl_pc = "pull_reading"
    /\ pull_pos = Len(pull_body)
    /\ cl_pc' = "pull_finishing"
    /\ UNCHANGED <<llm, cl_op, requests, pull_events, pull_cancelled,
                   cl_result, pullLocals>>
    /\ UNCHANGED <<streamVars, outsideClient, pullHist>>

\* After the read loop: the rest of the buffer, the flag, the result
PullFinish ==
    /\ cl_pc = "pull_finishing"
    /\ LET st == PullTail(CurrentPullLocals)
       IN  /\ pull_buffer' = st.buffer
           /\ pull_completed' = st.completed
           /\ IF st.failed # <<>>
              THEN /\ pull_events' = st.events
                   /\ cl_result' = st.failed[1]
              ELSE IF pull_cancelled
              THEN /\ pull_events' = PullCancelled(st.events)
                   /\ cl_result' = ErrResult("Cancelled")
              ELSE IF st.completed
              THEN /\ pull_events' = st.events
                   /\ cl_result' = ClientOk(<<>>)
              ELSE /\ pull_events' = Append(st.events,
                                         PullProgress("error: stream interrupted"))
                   /\ cl_result' = ErrResult("StreamInterrupted")
    /\ cl_pc' = "returned"
    /\ UNCHANGED <<llm, cl_op, requests, pull_cancelled, pull_body, pull_pos>>
    /\ UNCHANGED <<streamVars, outsideClient, pullHist>>

\* Another pull_model call on the same client, for the Ollama kind, gets to
\* self.pull_cancelled.store(false, ..) while this call is under way. Its
\* request, its events and its result are its own; the flag is shared.
OtherPullModelStart ==
    /\ cl_op = "pull_model"
    /\ cl_pc \in {"pull_sending", "pull_reading", "pull_finishing"}
    /\ pull_cancelled' = PullFlagAtStart("Ollama", pull_cancelled)
    /\ UNCHANGED <<llm, cl_op, cl_pc, requests, pull_events, cl_result,
                   pullLocals>>
    /\ UNCHANGED <<streamVars, outsideClient, pullHist>>

\* cancel_pull, from another task, before or while pull_model runs
CancelPull ==
    /\ cl_pc \in {"input", "pull_sending", "pull_reading", "pull_finishing"}
    /\ ~pull_cancelled
    /\ pull_cancelled' = TRUE
    /\ pull_cancel_seen' = (pull_cancel_seen \/ cl_pc = "pull_reading")
    /\ UNCHANGED <<llm, cl_op, cl_pc, requests, pull_events, cl_result,
                   pullLocals>>
    /\ UNCHANGED <<streamVars, outsideClient>>

ClientNext ==
    \/ \E reply \in Replies : ListModels(reply)
    \/ \E reply \in Replies : CheckConnection(reply)
    \/ \E reply \in Replies, models_reply \in Replies, models \in ModelLists :
           HealthCheck(reply, models_reply, models)
    \/ \E reply \in Replies, content \in {<<>>, <<"a">>} :
           Generate(reply, content)
    \/ \E b \in UNION {ClientBodies(k) : k \in Kinds} : StreamChatStart(b)
    \/ (cl_pc = "streaming" /\ StreamNext)
    \/ StreamChatReturn
    \/ \E b \in PullBodies : PullModelStart(b)
    \/ \E resp \in Responses : PullSend(ConfigModel, resp)
    \/ \E n \in 1..(Len(pull_body) - pull_pos) : PullChunk(n)
    \/ PullChunkError
    \/ PullTimeout
    \/ PullEnd
    \/ PullFinish
    \/ CancelPull
    \/ OtherPullModelStart

SpecClient == ClientInit /\ [][ClientNext]_vars

-----------------------------------------------------------------------------
(* commands: the send_message and cancel_response calls of one session, on
   the table messages and on state.stream_cancel.  A call that returns an
   error before it changed anything (a message over 100 KB, a failed
   database call) leaves every variable as it was. *)

MaxSends == 3

Row(id, role) == [id |-> id, role |-> role]

\* uuid::Uuid::new_v4(): an id no row has
NewId(rows) ==
    LET ids == {rows[i].id : i \in 1..Len(rows)}
    IN  CHOOSE n \in 1..(Len(rows) + 1) : n \notin ids

\* Database::save_message: the new row has the latest created_at
SaveMessage(rows, role) == Append(rows, Row(NewId(rows), role))

\* The last index of rows whose role is role, 0 when there is none
LastOf(rows, role) ==
    LET found == {i \in 1..Len(rows) : rows[i].role = role}
    IN  IF found = {} THEN 0
        ELSE CHOOSE i \in found : \A j \in found : j <= i

\* Database::delete_last_assistant_message: DELETE .. WHERE id = (SELECT id ..
\* WHERE role = 'assistant' ORDER BY created_at DESC LIMIT 1)
DeleteLastAssistantMessage(rows) ==
    LET i == LastOf(rows, "assistant")
    IN  IF i = 0 THEN rows
        ELSE SubSeq(rows, 1, i - 1) \o SubSeq(rows, i + 1, Len(rows))

\* The calls that are before their registration
InFront == {t \in Tasks : sends[t].pc \in {"retry_found", "started"}}

\* send_message, to the user message: saved, or, on a retry, the last user
\* message of the session (a retry on a session without one returns a
\* validation error)
SendMessageStart(t, is_retry) ==
    /\ sends[t].pc = "idle"
    /\ Len(flags) + Cardinality(InFront) < MaxSends
    /\ IF is_retry
       THEN LET last_user == LastOf(message_rows, "user")
            IN  /\ sends' = IF last_user = 0 THEN sends
                            ELSE [sends EXCEPT ![t] =
                                     [NoSend EXCEPT
                                         !.pc = "retry_found",
                                         !.retry = TRUE,
                                         !.user_msg = message_rows[last_user].id]]
                /\ UNCHANGED message_rows
       ELSE /\ message_rows' = SaveMessage(message_rows, "user")
            /\ sends' = [sends EXCEPT ![t] =
                            [NoSend EXCEPT !.pc = "started",
                                           !.user_msg = NewId(message_rows)]]
    /\ UNCHANGED <<stream_cancel, flags>>
    /\ UNCHANGED <<streamVars, genVars, sendVars, readyVars, confVars,
                   configVars, clientVars, storeVars, cmdVars, pullHist>>

\* state.db.delete_last_assistant_message(&session_id) of a retry
RetryDelete(t) ==
    /\ sends[t].pc = "retry_found"
    /\ message_rows' = DeleteLastAssistantMessage(message_rows)
    /\ sends' = [sends EXCEPT ![t].pc = "started"]
    /\ UNCHANGED <<stream_cancel, flags>>
    /\ UNCHANGED <<streamVars, genVars, sendVars, readyVars, confVars,
                   configVars, clientVars, storeVars, cmdVars, pullHist>>

\* let cancel_flag = Arc::new(AtomicBool::new(false));
\* map.insert(session_id.clone(), cancel_flag.clone()); stream_chat is called
RegisterFlag(t) ==
    /\ sends[t].pc = "started"
    /\ flags' = Append(flags, FALSE)
    /\ stream_cancel' = <<Len(flags) + 1>>
    /\ sends' = [sends EXCEPT ![t].pc = "streaming",
                              ![t].flag = Len(flags) + 1]
    /\ UNCHANGED message_rows
    /\ UNCHANGED <<streamVars, genVars, sendVars, readyVars, confVars,
                   configVars, clientVars, storeVars, cmdVars, pullHist>>

\* stream_chat(.., Some(cancel_flag.clone())).await returns: Cancelled only
\* when it read its flag set
StreamChatReturns(t, outcome) ==
    /\ sends[t].pc = "streaming"
    /\ outcome = "Cancelled" => flags[sends[t].flag]
    /\ sends' = [sends EXCEPT ![t].pc = "matching", ![t].outcome = outcome]
    /\ UNCHANGED <<message_rows, stream_cancel, flags>>
    /\ UNCHANGED <<streamVars, genVars, sendVars, readyVars, confVars,
                   configVars, clientVars, storeVars, cmdVars, pullHist>>

EntryKeptOnCancel(map, outcome) ==
    IF outcome = "Cancelled" THEN map ELSE <<>>

\* map.remove(&session_id), on every arm of the match
EntryAfterReturn(map, outcome) == <<>>

\* match full_response: Ok saves the assistant message (a failure is only
\* logged); every arm removes the entry of the session and returns
SendMessageFinish(t, saved) ==
    /\ sends[t].pc = "matching"
    /\ message_rows' = IF sends[t].outcome = "Ok" /\ saved
                       THEN SaveMessage(message_rows, "assistant")
                       ELSE message_rows
    /\ stream_cancel' = EntryAfterReturn(stream_cancel, sends[t].outcome)
    /\ sends' = [sends EXCEPT ![t] = NoSend]
    /\ UNCHANGED flags
    /\ UNCHANGED <<streamVars, genVars, sendVars, readyVars, confVars,
                   configVars, clientVars, storeVars, cmdVars, pullHist>>

\* cancel_response: if let Some(flag) = map.get(&session_id) { flag.store(true) }
CancelResponseOfSession ==
    /\ flags' = IF stream_cancel = <<>> THEN flags
                ELSE [flags EXCEPT ![stream_cancel[1]] = TRUE]
    /\ UNCHANGED <<message_rows, stream_cancel, sends>>
    /\ UNCHANGED <<streamVars, genVars, sendVars, readyVars, confVars,
                   configVars, clientVars, storeVars, cmdVars, pullHist>>

ChatInit ==
    /\ GenIdle
    /\ SendIdle
    /\ StreamIdle
    /\ ReadyIdle
    /\ ConfIdle
    /\ ConfigIdle
    /\ ClientIdle
    /\ ChatIdle
    /\ CommandsIdle
    /\ kind = "Ollama"

ChatNext ==
    \/ \E t \in Tasks, is_retry \in BOOLEAN : SendMessageStart(t, is_retry)
    \/ \E t \in Tasks : RetryDelete(t)
    \/ \E t \in Tasks : RegisterFlag(t)
    \/ \E t \in Tasks, outcome \in {"Ok", "Cancelled", "Err"} :
           StreamChatReturns(t, outcome)
    \/ \E t \in Tasks, saved \in BOOLEAN : SendMessageFinish(t, saved)
    \/ CancelResponseOfSession

SpecChat == ChatInit /\ [][ChatNext]_vars

-----------------------------------------------------------------------------
(* db: replace_documents calls on the documents and document_versions of one
   session.  The connection is behind a mutex, so the calls run one after the
   other. *)

MaxReplaces == 3

\* The tables as the transaction has them after `steps` of its statements:
\* archive_current_documents, DELETE, then one INSERT for every draft
TxWork(docs, versions, ds, steps) ==
    [documents |-> IF steps < 2 THEN docs
                   ELSE SubSeq(ds, 1, steps - 2),
     document_versions |-> IF steps < 1 THEN versions
                           ELSE ArchiveCurrentDocuments(versions, docs)]

TxEndNoRollback(before, work, committed) == work

\* tx.commit(), or the drop of the transaction on a `?`, which rolls it back
TxEnd(before, work, committed) == IF committed THEN work ELSE before

\* Database::replace_documents, failing at the statement fail_at (0: never)
ReplaceDocumentsTx(docs, versions, ds, fail_at) ==
    LET steps == IF fail_at = 0 THEN Len(ds) + 2 ELSE fail_at - 1
    IN  TxEnd([documents |-> docs, document_versions |-> versions],
              TxWork(docs, versions, ds, steps),
              fail_at = 0)

\* The batches the calls are made with
StoreBatches ==
    LET old == <<"#", "old">>
        new == <<"#", "new">>
    IN  { <<>>,
          <<Draft("SPEC.md", old)>>,
          <<Draft("SPEC.md", new)>>,
          <<Draft("SPEC.md", old), Draft("README.md", old)>>,
          <<Draft("README.md", new), Draft("SPEC.md", new)>>,
          <<Draft("SPEC.md", old), Draft("SPEC.md", new)>> }

StoreInit ==
    /\ GenIdle
    /\ SendIdle
    /\ StreamIdle
    /\ ReadyIdle
    /\ ConfIdle
    /\ ConfigIdle
    /\ ClientIdle
    /\ ChatIdle
    /\ CommandsIdle
    /\ kind = "Ollama"

\* One call of replace_documents(session_id, ds)
ReplaceDocumentsCall(ds, fail_at) ==
    /\ Len(replace_log) < MaxReplaces
    /\ fail_at \in 0..(Len(ds) + 3)
    /\ LET after == ReplaceDocumentsTx(documents, document_versions, ds, fail_at)
       IN  /\ documents' = after.documents
           /\ document_versions' = after.document_versions
    /\ replace_log' = Append(replace_log,
                             [docs |-> ds, committed |-> fail_at = 0])
    /\ UNCHANGED <<messages, include_conversation, drafts, docIdx, glog, gpc,
                   gresult, stored_before>>
    /\ UNCHANGED <<streamVars, sendVars, readyVars, confVars, configVars,
                   clientVars, chatVars, cmdVars, pullHist>>

StoreNext ==
    \E ds \in StoreBatches, fail_at \in 0..5 : ReplaceDocumentsCall(ds, fail_at)

SpecStore == StoreInit /\ [][StoreNext]_vars

-----------------------------------------------------------------------------
(* The generate_documents command (commands/mod.rs): the readiness gate in
   front of generate_all_documents, and the metadata row after it *)

\* get_messages of the session as generate_all_documents reads it: the roles
RolesOf(msgs) == [i \in 1..Len(msgs) |-> msgs[i].role]

\* The conversations of the sessions the command is called for: none, the
\* complete text said by each role, and texts that leave must-haves open
CmdTranscripts ==
    {<<>>}
        \cup {<<Message(1, r, CompleteCoverageText)>> : r \in Roles}
        \cup {<<Message(1, "user", "Build a habit tracker using SQLite and Tauri")>>,
              <<Message(1, "user", "Tell me more"),
                Message(2, "assistant", CompleteCoverageText)>>,
              <<Message(1, "system", CompleteCoverageText),
                Message(2, "user", "We use a database"),
                Message(3, "assistant", "Tell me more")>>}

CmdInit ==
    /\ StreamIdle
    /\ SendIdle
    /\ ConfIdle
    /\ ConfigIdle
    /\ ClientIdle
    /\ ChatIdle
    /\ replace_log = <<>>
    /\ pull_cancel_seen = FALSE
    /\ kind = "Ollama"
    /\ transcript \in CmdTranscripts
    /\ messages = RolesOf(transcript)
    /\ include_conversation = FALSE
    /\ documents \in StoredBefore
    /\ document_versions = {}
    /\ drafts = <<>>
    /\ docIdx = 0
    /\ glog = <<>>
    /\ gpc = "gate"
    /\ gresult = NoResult
    /\ stored_before = <<documents, document_versions>>
    /\ report = NoReport
    /\ coverage = <<>>
    /\ rpc = "idle"
    /\ force \in BOOLEAN
    /\ gd_result = [kind |-> "none"]

GateIgnoresForce(f, quality) == quality.missing_must_haves = <<>>

\* The negation of
\* !request.force.unwrap_or(false) && !quality.missing_must_haves.is_empty()
GateOpen(f, quality) == f \/ quality.missing_must_haves = <<>>

\* The config lock is poisoned, the target is not a known one, or
\* get_messages fails in analyze_plan_readiness_internal: `?` returns
GenerateDocumentsSetupFails(err) ==
    /\ gpc = "gate"
    /\ gd_result' = [kind |-> err]
    /\ gpc' = "failed"
    /\ UNCHANGED force
    /\ UNCHANGED <<messages, include_conversation, documents,
                   document_versions, drafts, docIdx, glog, gresult,
                   stored_before>>
    /\ UNCHANGED <<streamVars, sendVars, readyVars, confVars, configVars,
                   clientVars, chatVars, storeVars, pullHist>>

\* generate_documents up to the call of generate_all_documents: the report,
\* then the gate
GenerateDocumentsGate ==
    /\ gpc = "gate"
    /\ report' = AnalyzePlanReadiness(transcript)
    /\ IF GateOpen(force, report')
       THEN /\ gpc' = "start"
            /\ gd_result' = [kind |-> "forging"]
       ELSE /\ gpc' = "gated"
            /\ gd_result' = [kind |-> "Validation",
                             missing |-> report'.missing_must_haves]
    /\ UNCHANGED <<force, transcript, coverage, rpc>>
    /\ UNCHANGED <<messages, include_conversation, documents,
                   document_versions, drafts, docIdx, glog, gresult,
                   stored_before>>
    /\ UNCHANGED <<streamVars, sendVars, confVars, configVars,
                   clientVars, chatVars, storeVars, pullHist>>

\* generate_all_documents has returned: map_err(to_response)?, then the
\* confidence report and upsert_generation_metadata, which can fail, then
\* Ok(docs). The confidence report goes into the metadata row only.
GenerateDocumentsReturn(meta_ok) ==
    /\ gpc = "returned"
    /\ gd_result.kind = "forging"
    /\ gd_result' = IF gresult.kind # "Ok" THEN [kind |-> gresult.kind]
                    ELSE IF meta_ok THEN [kind |-> "Ok"]
                    ELSE [kind |-> "Database"]
    /\ gpc' = "done"
    /\ UNCHANGED force
    /\ UNCHANGED <<messages, include_conversation, documents,
                   document_versions, drafts, docIdx, glog, gresult,
                   stored_before>>
    /\ UNCHANGED <<streamVars, sendVars, readyVars, confVars, configVars,
                   clientVars, chatVars, storeVars, pullHist>>

CmdNext ==
    \/ \E err \in {"Config", "Validation", "Database"} :
           GenerateDocumentsSetupFails(err)
    \/ GenerateDocumentsGate
    \/ GenNext
    \/ \E meta_ok \in BOOLEAN : GenerateDocumentsReturn(meta_ok)

SpecCmd == CmdInit /\ [][CmdNext]_vars

-----------------------------------------------------------------------------
(* Properties of the readiness analyzer *)

AllTopics == MUST_HAVE_TOPICS \o SHOULD_HAVE_TOPICS

\* The evaluated topics of the coverage report, must-have first
Evaluated == coverage.must_have \o coverage.should_have

\* For every topic, the keywords found in each message of the transcript
\* that is not a system message, in whatever case
Found ==
    LET lowered == [i \in 1..Len(transcript) |->
                       ToAsciiLowercase(transcript[i].content)]
    IN  [t \in 1..Len(AllTopics) |->
            [i \in 1..Len(transcript) |->
                IF transcript[i].role = "system" THEN {}
                ELSE {k \in {AllTopics[t].keywords[j] :
                                j \in 1..Len(AllTopics[t].keywords)} :
                         Contains(lowered[i], k)}]]

\* The keywords of topic t that some non-system message holds
Matched(found, t) == UNION {found[t][i] : i \in 1..Len(transcript)}

\* The non-system messages that hold a keyword of topic t
Evidence(found, t) == {i \in 1..Len(transcript) : found[t][i] # {}}

\* C17: for the empty transcript analyze_plan_readiness returns score 0 and
\* lists all five must-have topics and all five should-have topics as
\* missing.
C17_EmptyTranscriptScoresZero ==
    (transcript = <<>> /\ report # NoReport) =>
        /\ report.score = 0
        /\ report.missing_must_haves =
              [i \in 1..5 |-> MUST_HAVE_TOPICS[i].topic]
        /\ report.missing_should_haves =
              [i \in 1..5 |-> SHOULD_HAVE_TOPICS[i].topic]

\* C17 witness: the empty transcript was analyzed.
C17_Witness ==
    /\ transcript = <<>>
    /\ report # NoReport
    /\ report.score = 0

\* C18: the score of a report is 100 - 14 * (length of its must-have
\* missing list) - 6 * (length of its should-have missing list), brought
\* into 0..100; the two lists name exactly the topics whose status is
\* missing, in table order.
C18_ScoreFormula ==
    /\ report # NoReport =>
          LET m == Len(report.missing_must_haves)
              s == Len(report.missing_should_haves)
              raw == 100 - 14 * m - 6 * s
          IN  /\ report.score = IF raw < 0 THEN 0 ELSE IF raw > 100 THEN 100 ELSE raw
              /\ report.score \in 0..100
    /\ (report # NoReport /\ coverage # <<>>) =>
          /\ Len(report.missing_must_haves) = coverage.missing_must_haves
          /\ Len(report.missing_should_haves) = coverage.missing_should_haves
          /\ report.missing_must_haves =
                TopicNames(SelectSeq(coverage.must_have,
                                     LAMBDA t : t.status = "missing"))
          /\ report.missing_should_haves =
                TopicNames(SelectSeq(coverage.should_have,
                                     LAMBDA t : t.status = "missing"))

\* C18 witness: a transcript with four must-have and five should-have topics
\* missing scores 14.
C18_Witness ==
    /\ report # NoReport
    /\ coverage # <<>>
    /\ Len(report.missing_must_haves) = 4
    /\ Len(report.missing_should_haves) = 5
    /\ report.score = 14

\* C19 as stated: missing iff no keyword occurs, partial iff exactly one
\* keyword occurs, covered iff two keywords occur and two messages hold one;
\* one status per topic.
C19_PartialIffOneKeyword ==
    coverage # <<>> =>
        LET found == Found
        IN  \A t \in 1..Len(AllTopics) :
            LET matched == Cardinality(Matched(found, t))
                status == Evaluated[t].status
            IN  /\ status \in {"missing", "partial", "covered"}
                /\ (status = "missing") <=> (matched = 0)
                /\ (status = "partial") <=> (matched = 1)
                /\ (status = "covered") <=>
                      (matched >= 2 /\ Cardinality(Evidence(found, t)) >= 2)

\* C19, amended: missing iff no keyword of the topic occurs in a non-system
\* message, covered iff at least two of its keywords occur and at least two
\* non-system messages hold one, partial in every other case; one status
\* per topic.
C19_TopicClassification ==
    coverage # <<>> =>
        LET found == Found
        IN  \A t \in 1..Len(AllTopics) :
            LET matched == Cardinality(Matched(found, t))
                evidence == Cardinality(Evidence(found, t))
                status == Evaluated[t].status
            IN  /\ status \in {"missing", "partial", "covered"}
                /\ (status = "missing") <=> (matched = 0)
                /\ (status = "covered") <=> (matched >= 2 /\ evidence >= 2)
                /\ (status = "partial") <=>
                      (matched >= 1 /\ (matched < 2 \/ evidence < 2))

\* C19 witness: one message names two keywords of the first topic, which is
\* partial.
C19_Witness ==
    /\ coverage # <<>>
    /\ Len(transcript) = 1
    /\ Cardinality(Matched(Found, 1)) = 2
    /\ coverage.must_have[1].status = "partial"

\* Every must-have topic has two keywords in the transcript and two messages
\* that hold one
MustHavesMentionedTwice ==
    LET found == Found
    IN  \A t \in 1..Len(MUST_HAVE_TOPICS) :
            /\ Cardinality(Matched(found, t)) >= 2
            /\ Cardinality(Evidence(found, t)) >= 2

\* C20 as stated: such a transcript has no missing must-have topic and
\* scores at least 90.
C20_MustHavesScoreNinety ==
    (report # NoReport /\ MustHavesMentionedTwice) =>
        /\ report.missing_must_haves = <<>>
        /\ report.score >= 90

\* C20, amended: such a transcript has no missing must-have topic and scores
\* 100 - 6 * (number of missing should-have topics), which is at least 70.
C20_MustHavesScoreSeventy ==
    (report # NoReport /\ MustHavesMentionedTwice) =>
        /\ report.missing_must_haves = <<>>
        /\ report.score = 100 - 6 * Len(report.missing_should_haves)
        /\ report.score >= 70

\* C20 witness: two assistant messages cover every must-have topic and no
\* should-have topic: the score is 70.
C20_Witness ==
    /\ report # NoReport
    /\ MustHavesMentionedTwice
    /\ \A i \in 1..Len(transcript) : transcript[i].role = "assistant"
    /\ report.score = 70

\* The transcript of one user message "Build a habit tracker using SQLite and
\* Tauri" was analyzed by both functions
HabitTrackerAnalyzed ==
    /\ transcript = <<Message(1, "user",
                              "Build a habit tracker using SQLite and Tauri")>>
    /\ coverage # <<>>
    /\ report # NoReport

\* The must-have topics none of whose keywords occurs in a non-system
\* message, in table order
MustHavesWithoutKeyword ==
    LET found == Found
    IN  TopicNames(SelectSeq([t \in 1..Len(MUST_HAVE_TOPICS) |->
                                 [topic |-> MUST_HAVE_TOPICS[t].topic,
                                  none |-> Matched(found, t) = {}]],
                             LAMBDA r : r.none))

\* C21 as stated: for that transcript the data-model topic is partial, the
\* tech-stack topic is covered, and the must-have topics the report lists as
\* missing are those none of whose keywords appear.
C21_HabitTrackerAsStated ==
    HabitTrackerAnalyzed =>
        /\ coverage.must_have[4].status = "partial"
        /\ coverage.must_have[3].status = "covered"
        /\ report.missing_must_haves = MustHavesWithoutKeyword

\* C21, amended: for that transcript the data-model topic is missing, the
\* tech-stack topic is partial with the one message as evidence, the
\* problem-statement topic is partial, and the report lists as missing the
\* three must-have topics none of whose keywords appear (core user flow, data
\* model, scope) and all five should-have topics: the score is
\* 100 - 3 * 14 - 5 * 6 = 28.
C21_HabitTrackerExample ==
    HabitTrackerAnalyzed =>
        /\ coverage.must_have[4].topic = "Data model / persistence strategy"
        /\ coverage.must_have[4].status = "missing"
        /\ coverage.must_have[3].topic = "Tech stack with rationale"
        /\ coverage.must_have[3].status = "partial"
        /\ coverage.must_have[3].evidence_message_ids = <<1>>
        /\ coverage.must_have[1].status = "partial"
        /\ report.missing_must_haves = MustHavesWithoutKeyword
        /\ report.missing_must_haves =
              <<"Core user flow (step-by-step)",
                "Data model / persistence strategy",
                "Scope boundaries (what is out for v1)">>
        /\ Len(report.missing_should_haves) = 5
        /\ report.score = 28

\* C21 witness: the example transcript was analyzed and scored 28.
C21_Witness ==
    /\ HabitTrackerAnalyzed
    /\ report.score = 28
    /\ coverage.missing_must_haves = 3

\* The transcript without its system-role messages
SystemRemoved(msgs) ==
    [j \in 1..Cardinality({i \in 1..Len(msgs) : msgs[i].role # "system"}) |->
        msgs[CHOOSE i \in 1..Len(msgs) :
                 /\ msgs[i].role # "system"
                 /\ Cardinality({h \in 1..i : msgs[h].role # "system"}) = j]]

\* The transcript with the content of every system-role message set to c
SystemChanged(msgs, c) ==
    [i \in 1..Len(msgs) |->
        IF msgs[i].role = "system" THEN Message(msgs[i].id, "system", c)
        ELSE msgs[i]]

\* The transcript with one more system-role message after its first n
SystemAdded(msgs, n, c) ==
    SubSeq(msgs, 1, n) \o <<Message(0, "system", c)>>
        \o SubSeq(msgs, n + 1, Len(msgs))

\* The transcripts that differ from msgs in system-role messages only
SystemVariants(msgs) ==
    {SystemRemoved(msgs)}
        \cup {SystemChanged(msgs, c) : c \in ReadyContents}
        \cup {SystemAdded(msgs, n, "Our problem: a workflow, a Rust stack.") :
                 n \in 0..Len(msgs)}

\* C22: the readiness report and the coverage report of a transcript (score,
\* missing lists, every topic status and every evidence list) are the ones
\* of every transcript obtained from it by removing its system-role
\* messages, changing their content or adding a system-role message.
C22_SystemMessagesIgnored ==
    LET variants == SystemVariants(transcript)
    IN  /\ report # NoReport =>
               \A v \in variants : AnalyzePlanReadiness(v) = report
        /\ coverage # <<>> =>
               \A v \in variants : AnalyzePlanningCoverage(v) = coverage

\* C22 witness: a system message names a keyword, the other message names
\* none, and every topic is missing.
C22_Witness ==
    /\ Len(transcript) = 2
    /\ transcript[1] = Message(1, "system", "We use a database")
    /\ transcript[2].role = "user"
    /\ report # NoReport
    /\ coverage # <<>>
    /\ report.score = 0
    /\ coverage.missing_must_haves = 5

-----------------------------------------------------------------------------
(* Properties of the confidence analyzer *)

\* The filenames of the document set
DocNames == {cdocs[i].filename : i \in 1..Len(cdocs)}

\* The required filenames the document set lacks
LackedDocs ==
    {REQUIRED_DOCS[i] : i \in 1..Len(REQUIRED_DOCS)} \ DocNames

\* The content of the document of that name (the last one, if several)
ContentOf(name) ==
    LET last == CHOOSE i \in 1..Len(cdocs) :
                    /\ cdocs[i].filename = name
                    /\ \A j \in 1..Len(cdocs) : cdocs[j].filename = name => j <= i
    IN  cdocs[last].content

\* The points of all four factors
PointsSum == SumOf(confidence[1].factors, "points")

\* C23: a document set that lacks a required filename gets a non-empty
\* blocking_gaps list and a score below 90, whatever the readiness report
\* and however high the other factors; whenever blocking_gaps is not empty
\* the score is at most 89.
C23_GapsCapScore ==
    confidence # <<>> =>
        /\ LackedDocs # {} =>
               /\ confidence[1].blocking_gaps # <<>>
               /\ confidence[1].score < 90
        /\ confidence[1].blocking_gaps # <<>> => confidence[1].score <= 89

\* C23 witness: only MODEL_HANDOFF.md is lacking and every other factor is
\* at its maximum: the points add up to 95 and the score is 89.
C23_Witness ==
    /\ confidence # <<>>
    /\ LackedDocs = {"MODEL_HANDOFF.md"}
    /\ PointsSum = 95
    /\ confidence[1].score = 89

\* The markers expected of each checked document
ExpectedMarkers ==
    {<<HeadingChecks[n].name, HeadingChecks[n].checks[i]>> :
        n \in 1..Len(HeadingChecks), i \in 1..2}

\* The hard gaps of the document set: the required filenames it lacks, and
\* the expected markers that a checked document it holds does not contain
HardGaps ==
    {"Missing required document: " \o name : name \in LackedDocs}
        \cup {em[1] \o " missing expected section marker '" \o em[2] \o "'" :
                 em \in {x \in ExpectedMarkers :
                            /\ x[1] \in DocNames
                            /\ ~Contains(ContentOf(x[1]), x[2])}}

\* C24: blocking_gaps holds one entry for every required document that is
\* lacking and one for every expected marker that a checked document does
\* not contain, and nothing else; it is empty exactly when every required
\* document is there and every marker is found.
C24_GapsAreTheHardGaps ==
    confidence # <<>> =>
        LET gaps == confidence[1].blocking_gaps
            hard == HardGaps
        IN  /\ {gaps[i] : i \in 1..Len(gaps)} = hard
            /\ Len(gaps) = Cardinality(hard)
            /\ (gaps = <<>>) <=>
                  /\ LackedDocs = {}
                  /\ \A em \in ExpectedMarkers :
                         Contains(ContentOf(em[1]), em[2])

\* C24 witness: every required document is there, and SPEC.md and PROMPTS.md
\* each lack one marker: two gaps, both about markers.
C24_Witness ==
    /\ confidence # <<>>
    /\ LackedDocs = {}
    /\ confidence[1].blocking_gaps =
          <<"SPEC.md missing expected section marker '## '",
            "PROMPTS.md missing expected section marker '### Verification Checklist'">>

\* C25: the score is in 0..100, the four factors have the maxima 30, 25, 20
\* and 25, and the points of each factor are in 0..its maximum.
C25_ScoreAndFactorRanges ==
    confidence # <<>> =>
        LET factors == confidence[1].factors
        IN  /\ confidence[1].score \in 0..100
            /\ [i \in 1..Len(factors) |-> factors[i].max_points]
                  = <<30, 25, 20, 25>>
            /\ \A i \in 1..Len(factors) :
                   factors[i].points \in 0..factors[i].max_points

\* C25 witness: the complete pack with a readiness score of 100 has every
\* factor at its maximum and scores 100.
C25_Witness ==
    /\ confidence # <<>>
    /\ creadiness = Readiness(100)
    /\ [i \in 1..4 |-> confidence[1].factors[i].points] = <<30, 25, 20, 25>>
    /\ confidence[1].score = 100

\* The markers and characters of the core documents of the set
CoreTotals ==
    LET core == {n \in {"SPEC.md", "PROMPTS.md", "README.md"} : n \in DocNames}
        RECURSIVE Sum(_, _)
        Sum(S, f) == IF S = {} THEN 0
                     ELSE LET n == CHOOSE x \in S : TRUE
                          IN  (IF f = "tbd"
                               THEN CountMatches(ContentOf(n), "[TBD")
                               ELSE Len(ContentOf(n))) + Sum(S \ {n}, f)
    IN  [tbd |-> Sum(core, "tbd"), chars |-> Sum(core, "chars")]

\* Marker counts and character counts to compare a document set with
DensityGrid == {<<t, c>> : t \in 0..3, c \in {249, 250, 500, 1000, 2000, 2001}}

\* C26 as stated: the readiness factor is the readiness score times 25 / 100
\* rounded (a half rounds up, as f64::round does) when a report is supplied
\* and 10 when none is; the points of the placeholder factor do not go up
\* when the ratio of "[TBD" markers to characters goes up.
C26_CarryOverAndDensity ==
    confidence # <<>> =>
        /\ confidence[1].factors[4].points =
              IF creadiness = <<>> THEN 10
              ELSE (creadiness[1].score * 25 * 2 + 100) \div 200
        /\ LET mine == CoreTotals
           IN  mine.chars > 0 =>
                   \A g \in DensityGrid :
                       (g[1] * mine.chars >= mine.tbd * g[2]) =>
                           TbdPoints(g[1], g[2]) <= confidence[1].factors[3].points

-----------------------------------------------------------------------------
(* Properties of the configuration *)

\* The last update call returned the error of a failed validation
ValidationFailed(res) ==
    /\ res.kind = "Err"
    /\ res.error[1] \in {"MissingField", "InvalidValue"}

\* C27: after any sequence of update_config and update_search_config calls
\* the configuration in memory passes validation (a known provider kind, an
\* http or https base URL, a temperature of 0 to 2, and the rest of
\* validate_config), and a call whose configuration fails validation returns
\* an error and leaves the configuration in memory as it was.
C27_ConfigValidatedBeforeUse ==
    /\ [](/\ ValidateConfig(config).ok
          /\ config.llm.provider \in {"ollama", "openai_compatible"}
          /\ config.llm.temperature \in 0..20)
    /\ [][ValidationFailed(cfg_result') => config' = config]_vars

-----------------------------------------------------------------------------
(* Properties of the client *)

AcceptedProviders ==
    {"ollama", "openai_compatible", "openai-compatible", "lmstudio"}

\* The provider of the call, ignoring case and surrounding whitespace
ProviderName == ToAsciiLowercase(TrimStr(llm.provider))

ClientCalled == cl_pc # "input"

UnsupportedProvider(res) ==
    /\ res.kind = "Validation"
    /\ res.text[1] = "Unsupported local provider"

\* C28: the provider names 'ollama', 'openai_compatible', 'openai-compatible'
\* and 'lmstudio' (ignoring case and surrounding whitespace) are accepted, and
\* no other: with any other name list_models, check_connection, generate,
\* stream_chat and pull_model return a validation error, and neither a
\* request nor an event was made; with one of the four the operation does
\* not fail on the provider.
ResolvingOperations ==
    {"list_models", "check_connection", "generate", "stream_chat", "pull_model"}

C28_ProviderNamesResolved ==
    (ClientCalled /\ cl_op \in ResolvingOperations) =>
        IF ProviderName \in AcceptedProviders
        THEN /\ cl_pc = "returned" => ~UnsupportedProvider(cl_result)
             /\ cl_pc = "returned" /\ cl_op # "pull_model" => requests # <<>>
        ELSE /\ cl_pc = "returned"
             /\ UnsupportedProvider(cl_result)
             /\ requests = <<>>
             /\ pull_events = <<>>
             /\ spc = "idle"
             /\ response = NoResponse

C28_Witness ==
    /\ llm.provider = "lm studio"
    /\ cl_op = "stream_chat"
    /\ cl_pc = "returned"
    /\ cl_result.kind = "Validation"

OpenAiBackend ==
    ProviderName \in {"openai_compatible", "openai-compatible", "lmstudio"}

IsErrorProgress(ev) == SubSeq(ev.status, 1, 6) = "error:"

\* C29: pull_model on the OpenAI-compatible backend returns a validation
\* error, emits one progress event, an error, makes no request and leaves the
\* pull-cancel flag as it was.
C29_PullUnsupported ==
    [][cl_pc = "input" /\ cl_op' = "pull_model" /\ OpenAiBackend =>
          /\ cl_pc' = "returned"
          /\ cl_result'.kind = "Validation"
          /\ ~UnsupportedProvider(cl_result')
          /\ Len(pull_events') = Len(pull_events) + 1
          /\ IsErrorProgress(pull_events'[Len(pull_events')])
          /\ SubSeq(pull_events', 1, Len(pull_events)) = pull_events
          /\ requests' = requests
          /\ pull_cancelled' = pull_cancelled]_vars

C29_Witness ==
    /\ OpenAiBackend
    /\ cl_op = "pull_model"
    /\ cl_pc = "returned"
    /\ pull_cancelled
    /\ Len(pull_events) = 1
    /\ requests = <<>>

\* C30: a request to the local daemon carries no authorization, whatever
\* api_key is configured; a request to the OpenAI-compatible backend carries
\* a bearer credential exactly when the api_key is not blank after trimming.
C30_CredentialsOnlyWhereDeclared ==
    \A i \in 1..Len(requests) :
        LET auth == requests[i].authorization
            blank == llm.api_key = <<>> \/ TrimStr(llm.api_key[1]) = ""
        IN  IF OpenAiBackend
            THEN /\ (auth # <<>>) <=> ~blank
                 /\ auth # <<>> => auth[1] = "Bearer " \o TrimStr(llm.api_key[1])
            ELSE auth = <<>>

C30_Witness ==
    /\ OpenAiBackend
    /\ llm.api_key = <<" sk-local\n">>
    /\ cl_op = "generate"
    /\ Len(requests) = 1
    /\ requests[1].authorization = <<"Bearer sk-local">>

\* C31: on a configuration of the BatchMessages kind, which is a
\* configuration whose provider is neither the local daemon nor an
\* OpenAI-compatible endpoint, stream_chat performs one blocking call, and,
\* when the call succeeds, has emitted one Content event (if the text is not
\* empty) followed by one Done event.
C31_BatchMessagesStreams ==
    /\ cl_op = "stream_chat"
    /\ cl_pc = "returned"
    /\ ProviderName \notin AcceptedProviders
    => /\ Len(requests) = 1
       /\ ~UnsupportedProvider(cl_result)
       /\ cl_result.kind = "Ok" =>
              /\ Len(events) \in 1..2
              /\ events[Len(events)] = DoneEvent
              /\ DoneCount(events) = 1

\* C32: within one streaming call no Content event comes after a Done event,
\* and once the terminal marker was processed (done is set) nothing more is
\* appended to the accumulated response.
C32_NothingAfterDone ==
    /\ [](\A i \in 1..Len(events) : \A j \in (i + 1)..Len(events) :
              events[i].type = "done" => events[j].type # "content")
    /\ [][done => full_response' = full_response]_vars

-----------------------------------------------------------------------------
(* Properties of the send_message calls of a session *)

RowIds(rows) == {rows[i].id : i \in 1..Len(rows)}

\* A step of the front part of a retry
RetryStep(t) ==
    \/ sends[t].pc = "idle" /\ sends'[t].pc = "retry_found"
    \/ sends[t].pc = "retry_found" /\ sends'[t].pc = "started"

\* C33: a send_message with retry = true saves no message and deletes at most
\* one, an assistant message that comes after the last user message of the
\* session: the reply to an earlier user message is never deleted.
C33_RetryDeletesOnlyTheLastReply ==
    [][\A t \in Tasks : RetryStep(t) =>
          LET deleted == {i \in 1..Len(message_rows) :
                             message_rows[i].id \notin RowIds(message_rows')}
          IN  /\ RowIds(message_rows') \subseteq RowIds(message_rows)
              /\ Cardinality(deleted) <= 1
              /\ \A i \in deleted :
                     /\ message_rows[i].role = "assistant"
                     /\ \A j \in 1..Len(message_rows) :
                            message_rows[j].role = "user" => j < i]_vars

\* A step of cancel_response that stores true in a flag
CancelStep == \E f \in 1..Len(flags) : ~flags[f] /\ flags'[f]

\* C34: a cancel_response issued while streams of the session are in flight
\* sets the flag of every one of them, also when two send_message calls
\* overlap; a flag is only set while it is the registered one, and the flag
\* of a stream started later is not set.
C34_CancelReachesEveryStream ==
    [][/\ CancelStep =>
              \A t \in Tasks :
                  sends[t].pc = "streaming" => flags'[sends[t].flag]
       /\ \A f \in 1..Len(flags) :
              ~flags[f] /\ flags'[f] => stream_cancel = <<f>>
       /\ Len(flags') > Len(flags) => ~flags'[Len(flags')]]_vars

\* C35: every return of send_message after the registration removes the
\* entry of the session: whenever no send_message is executing, stream_cancel
\* holds no entry.
C35_NoStaleEntry ==
    (\A t \in Tasks : sends[t].pc = "idle") => stream_cancel = <<>>

C35_Witness ==
    /\ \A t \in Tasks : sends[t].pc = "idle"
    /\ Len(flags) = 2
    /\ flags[1]
    /\ LastOf(message_rows, "assistant") # 0
    /\ stream_cancel = <<>>

-----------------------------------------------------------------------------
(* Properties of replace_documents *)

\* The calls that committed, and the last of them (0 when there is none)
CommittedCalls == {i \in 1..Len(replace_log) : replace_log[i].committed}

LastCommitted ==
    IF CommittedCalls = {} THEN 0
    ELSE CHOOSE i \in CommittedCalls : \A j \in CommittedCalls : j <= i

\* The documents a later commit replaced: <<call, position>>
Superseded ==
    {<<i, j>> \in (1..Len(replace_log)) \X (1..2) :
        /\ i \in CommittedCalls
        /\ i # LastCommitted
        /\ j <= Len(replace_log[i].docs)}

\* C36: after any sequence of replace_documents calls the current documents
\* are the last committed batch, every document a commit replaced has its own
\* row in document_versions with its content, and the versions of a filename
\* are 1, 2, .., n; a call that fails changes nothing.
C36_ReplaceIsAtomicAndVersioned ==
    /\ documents = IF LastCommitted = 0 THEN <<>>
                   ELSE replace_log[LastCommitted].docs
    /\ \A f \in {"SPEC.md", "README.md"} :
           LET rows == {v \in document_versions : v.filename = f}
           IN  /\ {v.version : v \in rows} = 1..Cardinality(rows)
               /\ Cardinality(rows) =
                      Cardinality({p \in Superseded :
                                      replace_log[p[1]].docs[p[2]].filename = f})
               /\ \A c \in {<<"#", "old">>, <<"#", "new">>} :
                      Cardinality({v \in rows : v.content = c}) =
                          Cardinality({p \in Superseded :
                              replace_log[p[1]].docs[p[2]] = Draft(f, c)})
    /\ \A v \in document_versions : v.filename \in {"SPEC.md", "README.md"}

C36_Witness ==
    /\ Len(replace_log) = 3
    /\ replace_log[1].committed
    /\ ~replace_log[2].committed
    /\ replace_log[3].committed
    /\ replace_log[1].docs = <<Draft("SPEC.md", <<"#", "old">>),
                               Draft("SPEC.md", <<"#", "new">>)>>
    /\ replace_log[2].docs # <<>>
    /\ Cardinality(document_versions) = 2

-----------------------------------------------------------------------------
(* Readiness under appending and reordering *)

\* The messages appended to an analyzed transcript
AppendedMessages ==
    { [role |-> "user", content |-> "Tell me more"],
      [role |-> "user", content |-> "We use a database"],
      [role |-> "assistant",
       content |-> "We chose retry on failure, unit test coverage, auth and privacy, low latency and memory."],
      [role |-> "user",
       content |-> "The problem is onboarding friction and our goal is to ship quickly."],
      [role |-> "system", content |-> CompleteCoverageText] }

StatusRank(status) ==
    IF status = "missing" THEN 0 ELSE IF status = "partial" THEN 1 ELSE 2

StatusesOf(cov) ==
    [i \in 1..Len(cov.must_have) |-> cov.must_have[i].status]
        \o [i \in 1..Len(cov.should_have) |-> cov.should_have[i].status]

\* The transcript with its messages in another order
Reorderings(t) ==
    {[i \in 1..Len(t) |-> t[p[i]]] : p \in Permutations(1..Len(t))}

\* C39: for an analyzed transcript, the same analysis of the transcript with
\* one more message gives a score that is not lower and no topic a lower
\* status (missing < partial < covered), and the same analysis of the
\* messages in any other order gives the same score and the same statuses.
C39_ReadinessMonotone ==
    (report # NoReport /\ coverage # <<>>) =>
        LET before == StatusesOf(coverage)
        IN  /\ \A m \in AppendedMessages :
                   LET longer == Append(transcript,
                                        Message(Len(transcript) + 1, m.role,
                                                m.content))
                       after == StatusesOf(AnalyzePlanningCoverage(longer))
                   IN  /\ AnalyzePlanReadiness(longer).score >= report.score
                       /\ \A i \in 1..Len(before) :
                              StatusRank(after[i]) >= StatusRank(before[i])
            /\ \A t \in Reorderings(transcript) :
                   /\ AnalyzePlanReadiness(t).score = report.score
                   /\ StatusesOf(AnalyzePlanningCoverage(t)) = before

\* Both analyses of a two-message transcript with a covered topic are done
C39_Witness ==
    /\ report # NoReport
    /\ coverage # <<>>
    /\ Len(transcript) = 2
    /\ transcript[1].content # transcript[2].content
    /\ \E i \in 1..Len(coverage.must_have) :
           coverage.must_have[i].status = "covered"

-----------------------------------------------------------------------------
(* Properties of a cancelled pull *)

\* C38: a pull_model call that cancel_pull reached while it was reading its
\* progress stream does not return Ok: it returns Cancelled, with
\* 'cancelled' as its last progress event, or an error of the stream.
C38_CancelledPullNotOk ==
    (pull_cancel_seen /\ cl_op = "pull_model" /\ cl_pc = "returned") =>
        /\ cl_result.kind # "Ok"
        /\ cl_result.kind = "Cancelled" =>
               /\ pull_events # <<>>
               /\ pull_events[Len(pull_events)] = PullProgress("cancelled")

-----------------------------------------------------------------------------
(* Properties of health_check *)

\* C40: health_check returns a pair and never an error, whatever the probes
\* met, and in every pair it returns, model available implies connected.
C40_AvailableImpliesReachable ==
    (cl_op = "health_check" /\ cl_pc = "returned") =>
        /\ cl_result.kind = "Ok"
        /\ cl_result.value \in BOOLEAN \X BOOLEAN
        /\ cl_result.value[2] => cl_result.value[1]

\* A health_check of a known provider whose connection probe did not
\* succeed: one request, no model probe, the answer (false, false)
C40_Witness ==
    /\ cl_op = "health_check"
    /\ cl_pc = "returned"
    /\ FromConfig(llm).ok
    /\ Len(requests) = 1
    /\ cl_result = ClientOk(<<FALSE, FALSE>>)

-----------------------------------------------------------------------------
(* Properties of the generate_documents command *)

\* C37: once generate_documents has the readiness report of the session:
\* without force, a report with a missing must-have topic makes the command
\* return the validation error of the gate with no provider call, no
\* progress event and the stored documents and versions as they were; with
\* force the gate never rejects and generate_all_documents is entered,
\* whatever the report says.
C37_ReadinessGate ==
    report # NoReport =>
        /\ (~force /\ report.missing_must_haves # <<>>) =>
               /\ gpc = "gated"
               /\ gd_result.kind = "Validation"
               /\ gd_result.missing = report.missing_must_haves
               /\ glog = <<>>
               /\ gresult = NoResult
               /\ <<documents, document_versions>> = stored_before
        /\ force =>
               /\ gpc \notin {"gate", "gated", "failed"}
               /\ gd_result.kind # "none"
               /\ gd_result.kind = "forging" \/ gpc = "done"

\* A rejected run: no force, must-haves missing, the command has returned
C37_Witness ==
    /\ ~force
    /\ report # NoReport
    /\ report.missing_must_haves # <<>>
    /\ gpc = "gated"
    /\ documents # <<>>

-----------------------------------------------------------------------------
(* Properties of one generate_all_documents run *)

\* The positions of the log entries of one sort
LogIdx(ev) == {i \in 1..Len(glog) : glog[i].ev = ev}

IsCallFor(i, k) == glog[i].ev = "generate" /\ glog[i].filename = DocConfigs[k]

\* The positions of the provider calls made for document k
CallsFor(k) == {i \in 1..Len(glog) : IsCallFor(i, k)}

\* The positions of the provider's answers for document k
RepliesFor(k) ==
    {r \in 2..Len(glog) : glog[r].ev = "reply" /\ IsCallFor(r - 1, k)}

Least(S) == CHOOSE m \in S : \A x \in S : m <= x
Greatest(S) == CHOOSE m \in S : \A x \in S : x <= m

StoreUntouched == <<documents, document_versions>> = stored_before

\* text begins with '#' once leading whitespace is dropped
HeadingAfterWhitespace(text) ==
    \E k \in 1..Len(text) :
        /\ text[k] = "#"
        /\ \A j \in 1..(k - 1) : text[j] \in {"sp", "cr", "nl"}

\* C5: when a provider call of the run failed, replace_documents was never
\* called, the stored documents are what they were before the run, and no
\* generate:complete event was emitted.
C5_ProviderFailurePersistsNothing ==
    gresult.kind \in {"ModelNotFound", "OllamaConnection", "LlmRequest"} =>
        /\ LogIdx("replace_documents") = {}
        /\ LogIdx("generate:complete") = {}
        /\ StoreUntouched

\* C5 witness: the provider fails on document 3 of 5, after two documents
\* were produced, for a session that already has stored documents.
C5_Witness ==
    /\ gresult.kind = "ModelNotFound"
    /\ docIdx = 3
    /\ Len(drafts) = 2
    /\ documents # <<>>

\* C6: a run whose transcript was read and holds no user message returns
\* the validation error without a provider call, a progress event or a
\* change of the stored documents.
C6_EmptyConversationRejected ==
    (/\ gpc = "returned"
     /\ LogIdx("get_messages") # {}
     /\ \A i \in 1..Len(messages) : messages[i] # "user") =>
        /\ gresult = ErrResult("Validation")
        /\ LogIdx("generate") = {}
        /\ LogIdx("generate:progress") = {}
        /\ LogIdx("replace_documents") = {}
        /\ StoreUntouched

\* C6 witness: a rejected run on a transcript that is not empty but has only
\* system and assistant messages.
C6_Witness ==
    /\ gpc = "returned"
    /\ gresult = ErrResult("Validation")
    /\ messages = <<"system", "assistant">>
    /\ documents # <<>>

\* C7: every document gets one provider call, a second one exactly when the
\* first output does not begin with '#' after leading whitespace, never a
\* third; the retry's output is the draft whatever its shape.  So every
\* draft begins with a heading or was retried exactly once.
C7_RetryOnceThenTolerate ==
    \A k \in 1..Len(DocConfigs) :
        LET calls == Cardinality(CallsFor(k))
            replies == RepliesFor(k)
        IN  /\ calls <= 2
            /\ (replies # {} =>
                  LET first == glog[Least(replies)].content
                  IN  (calls = 2) <=> ~HeadingAfterWhitespace(first))
            /\ (k <= Len(drafts) =>
                  /\ calls >= 1
                  /\ Cardinality(replies) = calls
                  /\ drafts[k].content = glog[Greatest(replies)].content
                  /\ (HeadingAfterWhitespace(drafts[k].content) \/ calls = 2))

\* C7 witness: a finished run in which one document was accepted at once
\* with leading whitespace and another was retried and its retry output,
\* still without a heading, was accepted.
C7_Witness ==
    /\ gresult.kind = "Ok"
    /\ drafts[1].content = <<"sp", "#">>
    /\ Cardinality(CallsFor(1)) = 1
    /\ Cardinality(CallsFor(2)) = 2
    /\ drafts[2].content = <<"x">>

BatchOrder(include) ==
    DocConfigs \o (IF include THEN <<"CONVERSATION.md">> ELSE <<>>)
               \o <<"MODEL_HANDOFF.md">>

\* C8: a successful run made exactly one replace_documents call, after the
\* last provider answer; the batch is in the fixed order; exactly one
\* generate:complete follows the call, its count the number of documents
\* persisted.
C8_PersistOnceInOrder ==
    gresult.kind = "Ok" =>
        /\ Cardinality(LogIdx("replace_documents")) = 1
        /\ Cardinality(LogIdx("generate:complete")) = 1
        /\ LET r == Greatest(LogIdx("replace_documents"))
               c == Greatest(LogIdx("generate:complete"))
           IN  /\ \A i \in LogIdx("generate") \cup LogIdx("reply") : i < r
               /\ \A k \in 1..Len(DocConfigs) : RepliesFor(k) # {}
               /\ [i \in 1..Len(glog[r].docs) |-> glog[r].docs[i].filename]
                     = BatchOrder(include_conversation)
               /\ documents = glog[r].docs
               /\ gresult.docs = documents
               /\ r < c
               /\ glog[c].count = Len(documents)

\* C8 witness: a successful run with CONVERSATION.md enabled that replaced
\* an earlier batch.
C8_Witness ==
    /\ gresult.kind = "Ok"
    /\ include_conversation
    /\ stored_before[1] # <<>>
    /\ document_versions # {}

\* The progress events of the run, in order
ProgressLog == SelectSeq(glog, LAMBDA e : e.ev = "generate:progress")

\* C9: in a successful run the progress events carry current = 1, 2, ..,
\* total, each once and in order, all with total = the size of the batch;
\* and the first provider call of a document comes after the progress event
\* of that document.
C9_ProgressBeforeEachDocument ==
    /\ \A k \in 1..Len(DocConfigs) :
          LET calls == CallsFor(k)
          IN  calls # {} =>
                  LET first == Least(calls)
                  IN  \E p \in 1..(first - 1) :
                          /\ glog[p].ev = "generate:progress"
                          /\ glog[p].filename = DocConfigs[k]
                          /\ glog[p].current = k
    /\ (gresult.kind = "Ok" =>
          LET progress == ProgressLog
          IN  /\ Len(progress) = Len(documents)
              /\ \A i \in 1..Len(progress) :
                    /\ progress[i].current = i
                    /\ progress[i].total = Len(documents)
                    /\ progress[i].filename = documents[i].filename)

\* C9 witness: a successful run of seven documents.
C9_Witness ==
    /\ gresult.kind = "Ok"
    /\ Len(ProgressLog) = 7

\* The outputs that were carried forward: for every document that has been
\* answered, the provider's last answer for it
AcceptedOutputs ==
    [j \in 1..Len(DocConfigs) |->
        LET replies == RepliesFor(j)
        IN  IF replies = {} THEN <<>> ELSE glog[Greatest(replies)].content]

\* C10: the prompt of every provider call for document k holds exactly the
\* accepted outputs of documents 1..k-1, in order (none for the first);
\* for a retried document the accepted output is the retry's.
C10_CrossReferenceContext ==
    LET accepted == AcceptedOutputs
    IN  \A k \in 1..Len(DocConfigs) :
            LET expected ==
                    IF k = 1
                    THEN <<"No documents generated yet.">>
                    ELSE [j \in 1..(k - 1) |->
                            [filename |-> DocConfigs[j], content |-> accepted[j]]]
            IN  \A i \in CallsFor(k) : glog[i].previously = expected

\* C10 witness: the call for the third document is made after the second
\* document was retried and the retry answered something else than the
\* rejected first output.
C10_Witness ==
    /\ CallsFor(3) # {}
    /\ Cardinality(RepliesFor(2)) = 2
    /\ glog[Least(RepliesFor(2))].content = <<"x">>
    /\ glog[Greatest(RepliesFor(2))].content = <<"#">>

\* C11: when a provider call of the run failed, the run returns the very
\* error value the provider call produced, kind and payload.
C11_ProviderErrorUnchanged ==
    \A i \in LogIdx("failure") :
        /\ gpc = "returned"
        /\ gresult.kind = glog[i].error.kind
        /\ gresult.text = glog[i].error.text

\* C11 witness: the second document's call is answered with 404 and the run
\* returns ModelNotFound with the configured model.
C11_Witness ==
    /\ docIdx = 2
    /\ LogIdx("failure") # {}
    /\ glog[Len(glog)].response.status = 404
    /\ gresult.kind = "ModelNotFound"
    /\ gresult.text = <<ConfigModel>>

\* res is the error the request phase owes for the response resp
OwedError(resp, res) ==
    IF ~resp.sent THEN res.kind = "OllamaConnection"
    ELSE IF resp.status = 404
         THEN res.kind = "ModelNotFound" /\ res.text = <<ConfigModel>>
    ELSE res.kind = "LlmRequest"

\* C14: a streaming or non-streaming call whose request got no connection
\* returns the connection error, one answered 404 returns ModelNotFound
\* with the requested model, one answered with another status outside
\* 200..299 returns the request-failed error; the call emitted nothing
\* (what follows in send_message is the caller's own stream:error).
C14_HttpFailureMapping ==
    /\ (/\ spc = "returned"
        /\ response # NoResponse
        /\ (response.sent => response.status \notin 200..299)) =>
            /\ OwedError(response, result)
            /\ \A i \in 1..Len(events) :
                   sm_pc = "returned" /\ i = 1 /\ events[i].type = "error"
    /\ \A i \in LogIdx("failure") :
           (glog[i].response.sent =>
                glog[i].response.status \notin 200..299) =>
               /\ OwedError(glog[i].response, gresult)
               /\ glog[i - 1].ev = "generate"

\* C14 witness: a streaming call on the OpenAI-compatible backend answered
\* with 404.
C14_Witness ==
    /\ kind = "OpenAiCompatible"
    /\ spc = "returned"
    /\ response.sent
    /\ response.status = 404
    /\ result = ModelNotFound(ConfigModel)

-----------------------------------------------------------------------------
(* The whole model *)

\* The parts are taken one at a time: the configuration commands are
\* followed from the states where no other part is in a call.
ConfigAlone ==
    /\ GenIdle
    /\ SendIdle
    /\ StreamIdle
    /\ ReadyIdle
    /\ ConfIdle
    /\ ClientIdle
    /\ ChatIdle
    /\ CommandsIdle

\* The same for the replace_documents calls. The send_message calls of a
\* session and the generate_documents command, which runs the whole of
\* generate_all_documents again, are followed in SpecChat and SpecCmd.
StoreAlone ==
    /\ GenIdle
    /\ SendIdle
    /\ StreamIdle
    /\ ReadyIdle
    /\ ConfIdle
    /\ ClientIdle
    /\ ConfigIdle
    /\ ChatIdle
    /\ force = FALSE
    /\ gd_result = [kind |-> "none"]

Init ==
    \/ StreamInit
    \/ SendInit
    \/ GenInit
    \/ ReadyInit
    \/ ConfInit
    \/ ConfigInit
    \/ ClientInit
    \/ StoreInit

Next ==
    \/ SendNext
    \/ GenNext
    \/ ReadyNext
    \/ ConfNext
    \/ (ConfigAlone /\ ConfigNext)
    \/ ClientNext
    \/ (StoreAlone /\ StoreNext)

Spec == Init /\ [][Next]_vars

====
